---- MODULE Spec2Model ----
(***************************************************************************)
(* A model of the Telemetrix host engine for the Raspberry Pi Pico 2W:     *)
(* the asyncio serial engine (TelemetrixRpiPico2WSerialAIO) and its report *)
(* dispatcher.  Every method of the engine is an operator from a machine   *)
(* record (the object's fields plus what the call did to the transport and *)
(* the exception it raised) to a machine record; an action runs one public *)
(* call, or one step of the dispatcher task, to completion.                *)
(***************************************************************************)
EXTENDS Integers, Sequences, FiniteSets, TLC

VARIABLES
    self,        \* the engine object's fields (a record, one field per attribute)
    last,        \* the last event: a public call's name, arguments, exception, frames
    session,     \* "bounded": the session makes at most MaxCalls calls; "free": any
    calls_left,  \* calls left in a bounded session
    granted,     \* the mode assignments that have succeeded: <<kind, key>> pairs
    rx,          \* bytes sent by the firmware and not yet read by the dispatcher
    arrived,     \* the report frames the firmware has sent, in order
    disp,        \* the dispatcher task: its position, the packet in hand, its log
    bridge,      \* the BLE bridge: its worker loop, futures and caller threads
    app          \* start_aio() or shutdown() awaited while other tasks run

vars ==
    <<self, last, session, calls_left, granted, rx, arrived, disp, bridge, app>>

----------------------------------------------------------------------------
(* Bounds of the model *)

\* public calls made in a bounded session
MaxCalls == 2
\* Python frames the interpreter allows before it raises RecursionError
RecursionLimit == 3
\* report frames the firmware sends in one session
MaxReports == 3

----------------------------------------------------------------------------
(* PrivateConstants: pin modes (listed in get_pico_pins' docstring) *)

AT_INPUT == 0
AT_OUTPUT == 1
AT_PWM_OUTPUT == 2
AT_INPUT_PULLUP == 3
AT_INPUT_PULL_DOWN == 4
AT_ANALOG == 5
AT_SERVO == 6
AT_SONAR == 7
AT_DHT == 8
AT_I2C == 9
AT_NEO_PIXEL == 10
AT_SPI == 11
AT_MODE_NOT_SET == 255

(* PrivateConstants: command identifiers. private_constants.py is not among
   the sources; an identifier is the tag of a frame, named where the source
   uses it, with its value in the Telemetrix protocol *)
LOOP_COMMAND == 0
SET_PIN_MODE == 1
DIGITAL_WRITE == 2
ANALOG_WRITE == 3
MODIFY_REPORTING == 4
I2C_BEGIN == 10
I2C_READ == 11
I2C_WRITE == 12
SONAR_NEW == 13
DHT_NEW == 14
GET_FIRMWARE_VERSION == 5
RETRIEVE_PICO_UNIQUE_ID == 6
STOP_ALL_REPORTS == 15
RESET_BOARD == 18
INIT_NEOPIXELS == 19
SHOW_NEOPIXELS == 20
SET_NEOPIXEL == 21
CLEAR_NEOPIXELS == 22
FILL_NEOPIXELS == 23
SPI_INIT == 24
SPI_WRITE_BLOCKING == 25
SPI_READ_BLOCKING == 26
SPI_SET_FORMAT == 27
SPI_CS_CONTROL == 28
SET_PWM_RANGE == 33
REPORTING_DISABLE_ALL == 0
REPORTING_DIGITAL_ENABLE == 2

(* PrivateConstants: report identifiers *)
DEBUG_PRINT == 99
DIGITAL_REPORT == 2
ANALOG_REPORT == 3
FIRMWARE_REPORT == 5
UNIQUE_ID_REPORT == 6
SERVO_UNAVAILABLE == 7
I2C_TOO_FEW_BYTES_RECEIVED == 8
I2C_TOO_MANY_BYTES_RECEIVED == 9
I2C_READ_REPORT == 10
SONAR_DISTANCE == 11
DHT_REPORT == 12
SPI_REPORT == 13
CPU_TEMP_REPORT == 20

(* PrivateConstants: limits *)
MAX_SONARS == 4
MAX_DHTS == 2
MAX_PWM_DUTY_CYCLE == 20000
I2C_NO_REGISTER == 254

\* Python's None where an integer may stand (a register, a chip select)
None == -1
\* Python's None where a callback may stand
NoCallback == "None"

----------------------------------------------------------------------------
(* Python dictionaries: functions whose domain is the set of keys *)

Has(d, k) == k \in DOMAIN d

Put(d, k, v) == [x \in (DOMAIN d) \cup {k} |-> IF x = k THEN v ELSE d[x]]

EmptyDict == [k \in {} |-> 0]

----------------------------------------------------------------------------
(* Conversions to bytes *)

\* bytes() turns True into 1 and False into 0
B2I(b) == IF b THEN 1 ELSE 0

\* the bytes least-significant first
to_bytes_bad(n, length) ==
    [i \in 1..length |-> (n \div (256 ^ (i - 1))) % 256]

RECURSIVE to_bytes(_, _)
\* int.to_bytes(length, byteorder='big') of a number that fits
to_bytes(n, length) ==
    IF length = 0 THEN <<>>
    ELSE to_bytes(n \div 256, length - 1) \o <<n % 256>>

----------------------------------------------------------------------------
(* The machine: the object, and what one call has done so far *)

\* a call starts with nothing written and no exception pending
Machine(s) ==
    [s |-> s, exc |-> "none", msg |-> "", cmds |-> <<>>, tried |-> <<>>,
     tx |-> <<>>, closes |-> 0, log |-> <<>>]

\* the call's log of what it did to the flag, the wire, the port and the loop,
\* in the order it did it
Logged(m, kind, frame) == [m EXCEPT !.log = Append(@, <<kind, frame>>)]

Ok(m) == m.exc = "none"

Raise(m, e, msg) == [m EXCEPT !.exc = e, !.msg = msg]

\* the classes caught by "except (RuntimeError, SerialException)";
\* RecursionError is a subclass of RuntimeError
Caught == {"RuntimeError", "RecursionError", "SerialException"}

----------------------------------------------------------------------------
(* The transport (TelemetrixAioSerial): a byte stream with write and close *)

\* write(bytes): the frame reaches the wire when the port is open; a closed or
\* failed port raises a transport fault
serial_write(m, frame) ==
    LET m1 == [m EXCEPT !.tried = Append(@, frame)]
    IN  IF m.s.serial_port = "open"
        THEN Logged([m1 EXCEPT !.tx = Append(@, frame)], "write", frame)
        ELSE Raise(m1, "SerialException", "write")

\* close()
serial_close(m) ==
    Logged([m EXCEPT !.s.serial_port = "closed", !.closes = @ + 1], "close", <<>>)

----------------------------------------------------------------------------
(* _send_command and shutdown *)

\* command.insert(0, len(command))
Frame_bad(command) == <<Len(command) + 1>> \o command

Frame(command) == <<Len(command)>> \o command

\* bytes(command) accepts integers 0..255 only
BytesOk(frame) == \A i \in 1..Len(frame) : frame[i] \in 0..255

\* the except clause of shutdown: "except (RuntimeError, SerialException): pass"
Swallow(m) ==
    IF m.exc \in Caught THEN [m EXCEPT !.exc = "none", !.msg = ""] ELSE m

\* "raise RuntimeError(...)" after a call that may itself have raised
ThenRaise(m, msg) == IF Ok(m) THEN Raise(m, "RuntimeError", msg) ELSE m

\* "self.shutdown_flag = True"
SetFlag(m) == Logged([m EXCEPT !.s.shutdown_flag = TRUE], "flag", <<>>)

RECURSIVE send_unattached(_, _)
\* _send_command while serial_port is None, at Python call depth `depth`: with
\* shutdown_on_exception it awaits shutdown(), which sets the flag and, inside
\* its try, calls _send_command again with the port still None; the interpreter
\* ends the descent with RecursionError, and each shutdown on the way back
\* swallows what its _send_command raised
send_unattached(m, depth) ==
    IF depth > RecursionLimit
    THEN Logged(Raise(m, "RecursionError", "depth"), "limit", <<>>)
    ELSE IF ~m.s.shutdown_on_exception THEN Raise(m, "RuntimeError", "usb")
    ELSE ThenRaise(Swallow(send_unattached(SetFlag(m), depth + 2)), "usb")

\* a _send_command whose frame reaches the wire whatever the port's state
send_attached_bad(m, command) ==
    Logged([m EXCEPT !.cmds = Append(@, command),
                     !.tried = Append(@, Frame(command)),
                     !.tx = Append(@, Frame(command))], "write", Frame(command))

\* _send_command(command) with a port attached: "except AttributeError" is dead,
\* the transport raises SerialException
send_attached(m, command) ==
    IF ~BytesOk(Frame(command))
    THEN \* ValueError is caught and send_message stays unbound
         Raise(m, "UnboundLocalError", "send_message")
    ELSE serial_write([m EXCEPT !.cmds = Append(@, command)], Frame(command))

\* _send_command(command), called at Python call depth `depth`
send_command(m, command, depth) ==
    IF m.s.serial_port = "None" THEN send_unattached(m, depth)
    ELSE send_attached(m, command)

\* shutdown's try up to "await asyncio.sleep(.5)": the stop-all-reports command
shutdown_stop(m) == send_attached(m, <<STOP_ALL_REPORTS>>)

\* from there up to "await asyncio.sleep(.2)": the reset command, if configured
shutdown_reset(m) ==
    IF m.s.reset_on_shutdown THEN send_attached(m, <<RESET_BOARD>>) ELSE m

\* the rest of the try: the port is closed and, if configured, the loop stopped
shutdown_close(m) ==
    LET m3 == serial_close(m)
    IN  IF m3.s.close_loop_on_shutdown
        THEN Logged([m3 EXCEPT !.s.loop_stopped = TRUE], "loop_stop", <<>>)
        ELSE m3

\* a shutdown that resets the board before it stops the reports
shutdown_attached_bad(m) ==
    LET m1 == shutdown_reset(m)
        m2 == IF Ok(m1) THEN shutdown_stop(m1) ELSE m1
    IN  IF Ok(m2) THEN shutdown_close(m2) ELSE m2

\* the body of shutdown's try with a port attached: an exception leaves it
shutdown_attached(m) ==
    LET m1 == shutdown_stop(m)
        m2 == IF Ok(m1) THEN shutdown_reset(m1) ELSE m1
    IN  IF Ok(m2) THEN shutdown_close(m2) ELSE m2

\* shutdown(), called at Python call depth `depth`
shutdown(m, depth) ==
    IF m.s.serial_port = "None"
    THEN Swallow(send_unattached(SetFlag(m), depth + 1))
    ELSE Swallow(shutdown_attached(SetFlag(m)))

\* "if self.shutdown_on_exception: await self.shutdown()" then "raise RuntimeError"
Fail(m, msg) ==
    ThenRaise(IF m.s.shutdown_on_exception THEN shutdown(m, 1) ELSE m, msg)

----------------------------------------------------------------------------
(* Data operations *)

digital_write(m, pin, value) ==
    IF ~Has(m.s.pico_pins, pin) THEN Raise(m, "KeyError", "pico_pins")
    ELSE IF m.s.pico_pins[pin] # AT_OUTPUT THEN Fail(m, "mode")
    ELSE send_command(m, <<DIGITAL_WRITE, pin, value>>, 1)

pwm_write(m, pin, duty_cycle) ==
    IF ~Has(m.s.pico_pins, pin) THEN Raise(m, "KeyError", "pico_pins")
    ELSE IF /\ m.s.pico_pins[pin] # AT_PWM_OUTPUT
            /\ m.s.pico_pins[pin] # AT_SERVO
    THEN Fail(m, "mode")
    ELSE IF ~(0 <= duty_cycle /\ duty_cycle <= m.s.maximum_pwm_duty_cycle)
    THEN Fail(m, "range")
    ELSE send_command(m, <<ANALOG_WRITE, pin>> \o to_bytes(duty_cycle, 2), 1)

\* servo_write ends in pwm_write(pin_number, duty_cycle, True): three arguments
\* for a method that takes two, so the call raises TypeError before pwm_write runs
servo_write(m, pin_number, value) ==
    IF ~Has(m.s.pico_pins, pin_number) THEN Raise(m, "KeyError", "pico_pins")
    ELSE IF m.s.pico_pins[pin_number] # AT_SERVO THEN Fail(m, "mode")
    ELSE IF ~Has(m.s.servo_ranges, pin_number)
    THEN Raise(m, "KeyError", "servo_ranges")
    ELSE Raise(m, "TypeError", "pwm_write")

i2c_read(m, address, register, number_of_bytes, callback, i2c_port, no_stop) ==
    LET m1 == IF i2c_port = 0
              THEN IF ~m.s.i2c_0_active THEN Fail(m, "mode")
                   ELSE [m EXCEPT !.s.i2c_callback = callback]
              ELSE IF ~(i2c_port = 1)
              THEN IF ~m.s.i2c_0_active THEN Fail(m, "mode")
                   ELSE [m EXCEPT !.s.i2c_callback2 = callback]
              ELSE m
        reg == IF register = None \/ register = 0 THEN I2C_NO_REGISTER
               ELSE register
    IN  IF callback = NoCallback THEN Fail(m, "callback")
        ELSE IF ~Ok(m1) THEN m1
        ELSE send_command(m1, <<I2C_READ, i2c_port, address, reg,
                                number_of_bytes, B2I(no_stop)>>, 1)

i2c_write(m, address, args, i2c_port, no_stop) ==
    IF i2c_port = 0 /\ ~m.s.i2c_0_active THEN Fail(m, "mode")
    ELSE IF i2c_port # 0 /\ ~m.s.i2c_1_active THEN Fail(m, "mode")
    ELSE send_command(m, <<I2C_WRITE, i2c_port, address, Len(args),
                           B2I(no_stop)>> \o args, 1)

neopixel_show(m) ==
    IF ~m.s.neopixels_initiated THEN Fail(m, "mode")
    ELSE send_command(m, <<SHOW_NEOPIXELS>>, 2)

\* "if auto_show: await self.neopixel_show()" after the command went out
AutoShow(m, auto_show) ==
    IF Ok(m) /\ auto_show THEN neopixel_show(m) ELSE m

RgbOk(r, g, b) == \A color \in {r, g, b} : 0 <= color /\ color <= 255

neo_pixel_set_value(m, pixel_number, r, g, b, auto_show) ==
    IF ~m.s.neopixels_initiated THEN Fail(m, "mode")
    ELSE IF ~(0 <= pixel_number /\ pixel_number < m.s.number_of_pixels)
    THEN Fail(m, "range")
    ELSE IF ~RgbOk(r, g, b) THEN Fail(m, "range")
    ELSE AutoShow(send_command(m, <<SET_NEOPIXEL, pixel_number, r, g, b,
                                    B2I(auto_show)>>, 1), auto_show)

neopixel_clear(m, auto_show) ==
    IF ~m.s.neopixels_initiated THEN Fail(m, "mode")
    ELSE AutoShow(send_command(m, <<CLEAR_NEOPIXELS, B2I(auto_show)>>, 1),
                  auto_show)

neopixel_fill(m, r, g, b, auto_show) ==
    IF ~m.s.neopixels_initiated THEN Fail(m, "mode")
    ELSE IF ~RgbOk(r, g, b) THEN Fail(m, "range")
    ELSE AutoShow(send_command(m, <<FILL_NEOPIXELS, r, g, b,
                                    B2I(auto_show)>>, 1), auto_show)

spi_cs_control(m, chip_select_pin, select) ==
    IF ~Has(m.s.pico_pins, chip_select_pin)
    THEN Raise(m, "KeyError", "pico_pins")
    ELSE IF m.s.pico_pins[chip_select_pin] # AT_SPI THEN Fail(m, "mode")
    ELSE send_command(m, <<SPI_CS_CONTROL, chip_select_pin, select>>, 1)

\* the guard shared by the SPI data operations that test "if not spi_port"
SpiPortActive(m, spi_port) ==
    IF spi_port = 0 THEN m.s.spi_0_active ELSE m.s.spi_1_active

spi_read_blocking(m, register, number_of_bytes, spi_port, call_back) ==
    IF spi_port = 0 /\ ~m.s.spi_0_active THEN Fail(m, "mode")
    ELSE IF spi_port = 1 /\ ~m.s.spi_1_active THEN Fail(m, "mode")
    ELSE IF call_back = NoCallback THEN Fail(m, "callback")
    ELSE LET m1 == IF spi_port = 0
                   THEN [m EXCEPT !.s.spi_callback = call_back]
                   ELSE [m EXCEPT !.s.spi_callback2 = call_back]
         IN  send_command(m1, <<SPI_READ_BLOCKING, spi_port, register,
                                number_of_bytes>>, 1)

spi_set_format(m, spi_port, data_bits, spi_polarity, spi_phase) ==
    IF ~SpiPortActive(m, spi_port) THEN Fail(m, "mode")
    ELSE send_command(m, <<SPI_SET_FORMAT, spi_port, data_bits, spi_polarity,
                           spi_phase>>, 1)

spi_write_blocking(m, bytes_to_write, spi_port) ==
    IF ~SpiPortActive(m, spi_port) THEN Fail(m, "mode")
    ELSE send_command(m, <<SPI_WRITE_BLOCKING, spi_port, Len(bytes_to_write)>>
                         \o bytes_to_write, 1)

----------------------------------------------------------------------------
(* Mode-assigning operations *)

\* the callback registration of _set_pin_mode: "if callback: ..."
BindPinCallback(s, pin_number, pin_state, callback) ==
    IF callback = NoCallback THEN s
    ELSE IF pin_state \in {AT_INPUT, AT_INPUT_PULLUP, AT_INPUT_PULL_DOWN}
    THEN [s EXCEPT !.digital_callbacks = Put(@, pin_number, callback)]
    ELSE IF pin_state = AT_ANALOG
    THEN [s EXCEPT !.analog_callbacks = Put(@, pin_number, callback)]
    ELSE s

\* the command _set_pin_mode builds for a pin state it knows
PinModeCommand(pin_number, pin_state, differential) ==
    IF pin_state \in {AT_INPUT, AT_INPUT_PULLUP, AT_INPUT_PULL_DOWN}
    THEN <<SET_PIN_MODE, pin_number, pin_state, 1>>
    ELSE IF pin_state = AT_OUTPUT
    THEN <<SET_PIN_MODE, pin_number, AT_OUTPUT>>
    ELSE IF pin_state = AT_ANALOG
    THEN <<SET_PIN_MODE, pin_number, AT_ANALOG, differential \div 256,
           differential % 256, 1>>
    ELSE <<SET_PIN_MODE, pin_number, AT_PWM_OUTPUT>>

\* the pin states _set_pin_mode has a command for
KnownPinStates ==
    {AT_INPUT, AT_INPUT_PULLUP, AT_INPUT_PULL_DOWN, AT_OUTPUT, AT_ANALOG,
     AT_PWM_OUTPUT, AT_SERVO}

\* the second write of the pin table in _set_pin_mode, after the command is built
MarkPin(s, pin_number, pin_state) ==
    IF pin_state = AT_ANALOG
    THEN IF pin_number = 0 THEN [s EXCEPT !.pico_pins = Put(@, 26, AT_ANALOG)]
         ELSE IF pin_number = 1
         THEN [s EXCEPT !.pico_pins = Put(@, 27, AT_ANALOG)]
         ELSE IF pin_number = 13
         THEN [s EXCEPT !.pico_pins = Put(@, 28, AT_ANALOG)]
         ELSE s
    ELSE [s EXCEPT !.pico_pins = Put(@, pin_number, pin_state)]

\* _set_pin_mode(pin_number, pin_state, differential, value_range, callback)
set_pin_mode(m, pin_number, pin_state, differential, value_range, callback) ==
    IF pin_state # AT_ANALOG /\ ~Has(m.s.pico_pins, pin_number)
    THEN Fail(m, "pin")
    ELSE
    LET s1 == IF pin_state = AT_ANALOG
              THEN [m.s EXCEPT !.pico_pins = Put(@, 26 + pin_number, AT_ANALOG)]
              ELSE [m.s EXCEPT !.pico_pins = Put(@, pin_number, pin_state)]
        s2 == BindPinCallback(s1, pin_number, pin_state, callback)
        s3 == IF pin_state = AT_SERVO
              THEN [s2 EXCEPT !.servo_ranges =
                                  Put(@, pin_number, <<differential, value_range>>)]
              ELSE s2
        s4 == MarkPin(s3, pin_number, pin_state)
    IN  IF pin_state \notin KnownPinStates THEN Fail([m EXCEPT !.s = s2], "state")
        ELSE send_command([m EXCEPT !.s = s4],
                          PinModeCommand(pin_number, pin_state, differential), 2)

set_pin_mode_analog_input(m, adc_number, differential, callback) ==
    IF ~(0 <= adc_number /\ adc_number < 5) THEN Fail(m, "range")
    ELSE set_pin_mode(m, adc_number, AT_ANALOG, differential, 0, callback)

set_pin_mode_digital_input(m, pin_number, callback) ==
    set_pin_mode(m, pin_number, AT_INPUT, 0, 0, callback)

set_pin_mode_digital_input_pullup(m, pin_number, callback) ==
    set_pin_mode(m, pin_number, AT_INPUT_PULLUP, 0, 0, callback)

set_pin_mode_digital_input_pull_down(m, pin_number, callback) ==
    set_pin_mode(m, pin_number, AT_INPUT_PULL_DOWN, 0, 0, callback)

set_pin_mode_digital_output(m, pin_number) ==
    set_pin_mode(m, pin_number, AT_OUTPUT, 0, 0, NoCallback)

set_pin_mode_neopixel(m, pin_number, num_pixels, fill_r, fill_g, fill_b) ==
    IF ~RgbOk(fill_r, fill_g, fill_b) THEN Fail(m, "range")
    ELSE LET m1 == send_command([m EXCEPT !.s.number_of_pixels = num_pixels],
                                <<INIT_NEOPIXELS, pin_number, num_pixels,
                                  fill_r, fill_g, fill_b>>, 1)
         IN  IF ~Ok(m1) THEN m1
             ELSE [m1 EXCEPT !.s.pico_pins = Put(@, pin_number, AT_NEO_PIXEL),
                             !.s.neopixels_initiated = TRUE]

\* "if self.pwm_active_count >= 15": the test that guards the PWM slots
PwmFull(count) == count >= 15

\* the pin table is written before the slots are counted; the else arm names
\* pixel_number, which is bound nowhere, so it raises NameError
set_pin_mode_pwm_output(m, pin_number) ==
    IF Has(m.s.pico_pins, pin_number)
    THEN LET m1 == [m EXCEPT !.s.pico_pins = Put(@, pin_number, AT_PWM_OUTPUT)]
         IN  IF PwmFull(m1.s.pwm_active_count) THEN Fail(m1, "capacity")
             ELSE set_pin_mode([m1 EXCEPT !.s.pwm_active_count = @ + 1],
                               pin_number, AT_PWM_OUTPUT, 0, 0, NoCallback)
    ELSE Raise(m, "NameError", "pixel_number")

set_pin_mode_i2c(m, i2c_port, sda_gpio, scl_gpio) ==
    IF i2c_port \notin {0, 1} THEN Fail(m, "range")
    ELSE IF ~Has(m.s.i2c_sda_pins, sda_gpio) THEN Fail(m, "pin")
    ELSE IF ~Has(m.s.i2c_scl_pins, scl_gpio) THEN Fail(m, "pin")
    ELSE IF m.s.i2c_sda_pins[sda_gpio] # 255 THEN Fail(m, "in_use")
    ELSE IF m.s.i2c_scl_pins[scl_gpio] # 255 THEN Fail(m, "in_use")
    ELSE LET s1 == [m.s EXCEPT
                      !.i2c_sda_pins = Put(@, sda_gpio, i2c_port),
                      !.i2c_scl_pins = Put(@, scl_gpio, i2c_port),
                      !.pico_pins = Put(Put(@, scl_gpio, AT_I2C), sda_gpio, AT_I2C),
                      !.i2c_0_active = IF i2c_port = 0 THEN TRUE ELSE @,
                      !.i2c_1_active = IF i2c_port = 0 THEN @ ELSE TRUE]
         IN  send_command([m EXCEPT !.s = s1],
                          <<I2C_BEGIN, i2c_port, sda_gpio, scl_gpio>>, 1)

\* "if self.dht_count < PrivateConstants.MAX_DHTS"
DhtHasRoom_bad(count) == count <= MAX_DHTS

DhtHasRoom(count) == count < MAX_DHTS

set_pin_mode_dht(m, pin, callback) ==
    IF callback = NoCallback THEN Fail(m, "callback")
    ELSE IF DhtHasRoom(m.s.dht_count)
    THEN send_command([m EXCEPT !.s.dht_callbacks = Put(@, pin, callback),
                                !.s.dht_count = @ + 1,
                                !.s.pico_pins = Put(@, pin, AT_DHT)],
                      <<DHT_NEW, pin>>, 1)
    ELSE Fail(m, "capacity")

set_pin_mode_servo(m, pin_number, min_pulse, max_pulse) ==
    LET m1 == set_pin_mode(m, pin_number, AT_SERVO, min_pulse, max_pulse,
                           NoCallback)
    IN  IF ~Ok(m1) THEN m1
        ELSE [m1 EXCEPT !.s.pico_pins = Put(@, pin_number, AT_SERVO)]

\* "if chip_select:" is false for None and for 0
set_pin_mode_spi(m, spi_port, chip_select, speed_maximum, data_order, data_mode) ==
    IF spi_port \notin {0, 1} THEN Fail(m, "range")
    ELSE IF ~(0 < speed_maximum /\ speed_maximum < 50000000) THEN Fail(m, "range")
    ELSE IF data_order \notin {0, 1} THEN Fail(m, "range")
    ELSE IF data_mode \notin {0, 1, 2, 3} THEN Fail(m, "range")
    ELSE
    LET given == chip_select # None /\ chip_select # 0
        cs == IF given THEN chip_select ELSE IF spi_port = 0 THEN 17 ELSE 13
        miso == IF spi_port = 0 THEN 16 ELSE 12
        mosi == IF spi_port = 0 THEN 19 ELSE 15
        clock_pin == IF spi_port = 0 THEN 18 ELSE 14
        s1 == [m.s EXCEPT
                 !.spi_0_active = IF spi_port = 0 THEN TRUE ELSE @,
                 !.spi_1_active = IF spi_port = 0 THEN @ ELSE TRUE,
                 !.spi0_chip_select = IF spi_port = 0 /\ given THEN cs ELSE @,
                 !.spi1_chip_select = IF spi_port # 0 /\ given THEN cs ELSE @,
                 !.pico_pins = Put(Put(Put(Put(@, mosi, AT_SPI), miso, AT_SPI),
                                       clock_pin, AT_SPI), cs, AT_SPI)]
    IN  send_command([m EXCEPT !.s = s1],
                     <<SPI_INIT, spi_port, cs>> \o to_bytes(speed_maximum, 4)
                         \o <<data_order, data_mode>>, 1)

\* "if self.sonar_count < PrivateConstants.MAX_SONARS"
SonarHasRoom(count) == count < MAX_SONARS

set_pin_mode_sonar(m, trigger_pin, echo_pin, callback) ==
    IF callback = NoCallback THEN Fail(m, "callback")
    ELSE IF SonarHasRoom(m.s.sonar_count)
    THEN send_command(
             [m EXCEPT !.s.sonar_callbacks = Put(@, trigger_pin, callback),
                       !.s.sonar_count = @ + 1,
                       !.s.pico_pins = Put(Put(@, echo_pin, AT_SONAR),
                                           trigger_pin, AT_SONAR)],
             <<SONAR_NEW, trigger_pin, echo_pin>>, 1)
    ELSE Fail(m, "capacity")

----------------------------------------------------------------------------
(* Other public operations *)

\* a pwm_range that sends the new range and forgets to keep it
pwm_range_bad(m, range_pwm) ==
    IF 16 <= range_pwm /\ range_pwm <= 65535
    THEN send_command(m, <<SET_PWM_RANGE>> \o to_bytes(range_pwm, 4), 1)
    ELSE Fail(m, "range")

pwm_range(m, range_pwm) ==
    IF 16 <= range_pwm /\ range_pwm <= 65535
    THEN send_command([m EXCEPT !.s.maximum_pwm_duty_cycle = range_pwm],
                      <<SET_PWM_RANGE>> \o to_bytes(range_pwm, 4), 1)
    ELSE Fail(m, "range")

disable_all_reporting(m) ==
    send_command(m, <<MODIFY_REPORTING, REPORTING_DISABLE_ALL, 0>>, 1)

enable_digital_reporting(m, pin) ==
    send_command(m, <<MODIFY_REPORTING, REPORTING_DIGITAL_ENABLE, pin>>, 1)

reset_board(m) == send_command(m, <<RESET_BOARD>>, 1)

----------------------------------------------------------------------------
(* The engine after __init__ *)

\* the keys of pico_pins: range(23), range(25, 29) and 64
LegalPins == (0..22) \cup (25..28) \cup {64}

SdaPins == {n \in 2..20 : n % 2 = 0} \cup {26}

SclPins == {n \in 3..21 : n % 2 = 1} \cup {27}

\* what the firmware reported while start_aio ran: its unique id and its version
PicoId == <<1, 2, 3, 4, 5, 6, 7, 8>>

FirmwareVersion == <<1, 0>>

\* __init__ with the given keyword arguments; port is "open" once start_aio has
\* attached the serial port and "None" when autostart is off; pico_instance_id
\* is left at its default (<<>> stands for None: no check of the id)
NewEngine(shutdown_on_exception, reset_on_shutdown, close_loop_on_shutdown, port) ==
    [shutdown_on_exception |-> shutdown_on_exception,
     reset_on_shutdown |-> reset_on_shutdown,
     close_loop_on_shutdown |-> close_loop_on_shutdown,
     pwm_active_count |-> 0,
     analog_callbacks |-> EmptyDict,
     digital_callbacks |-> EmptyDict,
     i2c_callback |-> NoCallback,
     i2c_callback2 |-> NoCallback,
     i2c_0_active |-> FALSE,
     i2c_1_active |-> FALSE,
     spi_callback |-> NoCallback,
     spi_callback2 |-> NoCallback,
     spi_0_active |-> FALSE,
     spi_1_active |-> FALSE,
     spi0_chip_select |-> 17,
     spi1_chip_select |-> 13,
     sonar_callbacks |-> EmptyDict,
     sonar_count |-> 0,
     dht_callbacks |-> EmptyDict,
     dht_count |-> 0,
     serial_port |-> port,
     shutdown_flag |-> FALSE,
     pico_instance_id |-> <<>>,
     loop_back_callback |-> NoCallback,
     cpu_temp_callback |-> NoCallback,
     reported_pico_id |-> IF port = "None" THEN <<>> ELSE PicoId,
     firmware_version |-> IF port = "None" THEN <<>> ELSE FirmwareVersion,
     loop_stopped |-> FALSE,
     maximum_pwm_duty_cycle |-> MAX_PWM_DUTY_CYCLE,
     pico_pins |-> [gpio_pin \in LegalPins |-> AT_MODE_NOT_SET],
     i2c_sda_pins |-> [n \in SdaPins |-> 255],
     i2c_scl_pins |-> [n \in SclPins |-> 255],
     servo_ranges |-> [gpio_pin \in (0..22) \cup (25..28) |-> <<1000, 2000>>],
     number_of_pixels |-> None,
     neopixels_initiated |-> FALSE]

NoCall ==
    [op |-> "init", args |-> <<>>, exc |-> "none", msg |-> "", cmds |-> <<>>,
     tried |-> <<>>, tx |-> <<>>, closes |-> 0, log |-> <<>>]

\* the application awaits neither start_aio() nor shutdown()
NoTask ==
    [op |-> "none", pc |-> "idle", exc |-> "none", decoded |-> 0, log |-> <<>>]

\* the dispatcher task is created by start_aio and first runs at its loop top
NewDispatcher(port) ==
    [pc |-> IF port = "None" THEN "not_started" ELSE "sleep",
     packet_length |-> 0, report |-> None, data |-> <<>>, decoded |-> 0,
     running |-> {}, started |-> <<>>, finished |-> <<>>, exc |-> "none"]

----------------------------------------------------------------------------
(* Public calls as actions *)

\* one public call `name(args)` run from start to finish with outcome m; grants
\* are the mode assignments it stands for when it returns without an exception
Called(name, args, m, grants) ==
    /\ session = "free" \/ calls_left > 0
    /\ calls_left' = IF session = "free" THEN calls_left ELSE calls_left - 1
    /\ self' = m.s
    /\ last' = [op |-> name, args |-> args, exc |-> m.exc, msg |-> m.msg,
                cmds |-> m.cmds, tried |-> m.tried, tx |-> m.tx,
                closes |-> m.closes, log |-> m.log]
    /\ granted' = IF Ok(m) THEN granted \cup grants ELSE granted
    /\ UNCHANGED <<session, disp, bridge, app>>

\* a public call while the firmware sends nothing
Api(name, args, m, grants) ==
    /\ Called(name, args, m, grants)
    /\ UNCHANGED <<rx, arrived>>

Call_digital_write(pin, value) ==
    Api("digital_write", <<pin, value>>,
        digital_write(Machine(self), pin, value), {})

Call_pwm_write(pin, duty_cycle) ==
    Api("pwm_write", <<pin, duty_cycle>>,
        pwm_write(Machine(self), pin, duty_cycle), {})

Call_servo_write(pin, value) ==
    Api("servo_write", <<pin, value>>,
        servo_write(Machine(self), pin, value), {})

Call_i2c_read(i2c_port, register, callback) ==
    Api("i2c_read", <<i2c_port, register, callback>>,
        i2c_read(Machine(self), 83, register, 2, callback, i2c_port, FALSE), {})

Call_i2c_write(i2c_port, args) ==
    Api("i2c_write", <<i2c_port, args>>,
        i2c_write(Machine(self), 83, args, i2c_port, FALSE), {})

Call_neo_pixel_set_value(pixel_number, r, auto_show) ==
    Api("neo_pixel_set_value", <<pixel_number, r, auto_show>>,
        neo_pixel_set_value(Machine(self), pixel_number, r, 0, 0, auto_show), {})

Call_neopixel_clear(auto_show) ==
    Api("neopixel_clear", <<auto_show>>,
        neopixel_clear(Machine(self), auto_show), {})

Call_neopixel_fill(r, auto_show) ==
    Api("neopixel_fill", <<r, auto_show>>,
        neopixel_fill(Machine(self), r, 0, 0, auto_show), {})

Call_neopixel_show ==
    Api("neopixel_show", <<>>, neopixel_show(Machine(self)), {})

Call_spi_cs_control(chip_select_pin, select) ==
    Api("spi_cs_control", <<chip_select_pin, select>>,
        spi_cs_control(Machine(self), chip_select_pin, select), {})

Call_spi_read_blocking(spi_port, call_back) ==
    Api("spi_read_blocking", <<spi_port, call_back>>,
        spi_read_blocking(Machine(self), 0, 2, spi_port, call_back), {})

Call_spi_set_format(spi_port) ==
    Api("spi_set_format", <<spi_port>>,
        spi_set_format(Machine(self), spi_port, 8, 0, 0), {})

Call_spi_write_blocking(spi_port, bytes_to_write) ==
    Api("spi_write_blocking", <<spi_port, bytes_to_write>>,
        spi_write_blocking(Machine(self), bytes_to_write, spi_port), {})

Call_set_pin_mode_analog_input(adc_number, differential, callback) ==
    Api("set_pin_mode_analog_input", <<adc_number, differential, callback>>,
        set_pin_mode_analog_input(Machine(self), adc_number, differential,
                                  callback),
        {<<"analog", adc_number>>})

Call_set_pin_mode_digital_input(pin_number, callback) ==
    Api("set_pin_mode_digital_input", <<pin_number, callback>>,
        set_pin_mode_digital_input(Machine(self), pin_number, callback),
        {<<"in", pin_number>>})

Call_set_pin_mode_digital_input_pullup(pin_number, callback) ==
    Api("set_pin_mode_digital_input_pullup", <<pin_number, callback>>,
        set_pin_mode_digital_input_pullup(Machine(self), pin_number, callback),
        {<<"in", pin_number>>})

Call_set_pin_mode_digital_input_pull_down(pin_number, callback) ==
    Api("set_pin_mode_digital_input_pull_down", <<pin_number, callback>>,
        set_pin_mode_digital_input_pull_down(Machine(self), pin_number, callback),
        {<<"in", pin_number>>})

Call_set_pin_mode_digital_output(pin_number) ==
    Api("set_pin_mode_digital_output", <<pin_number>>,
        set_pin_mode_digital_output(Machine(self), pin_number),
        {<<"out", pin_number>>})

Call_set_pin_mode_neopixel(pin_number, num_pixels) ==
    Api("set_pin_mode_neopixel", <<pin_number, num_pixels>>,
        set_pin_mode_neopixel(Machine(self), pin_number, num_pixels, 0, 0, 0),
        {<<"neo", pin_number>>})

Call_set_pin_mode_pwm_output(pin_number) ==
    Api("set_pin_mode_pwm_output", <<pin_number>>,
        set_pin_mode_pwm_output(Machine(self), pin_number),
        {<<"pwm", pin_number>>})

Call_set_pin_mode_i2c(i2c_port, sda_gpio, scl_gpio) ==
    Api("set_pin_mode_i2c", <<i2c_port, sda_gpio, scl_gpio>>,
        set_pin_mode_i2c(Machine(self), i2c_port, sda_gpio, scl_gpio),
        {<<"i2c", i2c_port>>})

Call_set_pin_mode_dht(pin, callback) ==
    Api("set_pin_mode_dht", <<pin, callback>>,
        set_pin_mode_dht(Machine(self), pin, callback), {<<"dht", pin>>})

Call_set_pin_mode_servo(pin_number) ==
    Api("set_pin_mode_servo", <<pin_number>>,
        set_pin_mode_servo(Machine(self), pin_number, 1000, 2000),
        {<<"servo", pin_number>>})

Call_set_pin_mode_spi(spi_port, chip_select) ==
    Api("set_pin_mode_spi", <<spi_port, chip_select>>,
        set_pin_mode_spi(Machine(self), spi_port, chip_select, 500000, 1, 0),
        {<<"spi", spi_port>>,
         <<"cs", IF chip_select # None /\ chip_select # 0 THEN chip_select
                 ELSE IF spi_port = 0 THEN 17 ELSE 13>>})

Call_set_pin_mode_sonar(trigger_pin, echo_pin, callback) ==
    Api("set_pin_mode_sonar", <<trigger_pin, echo_pin, callback>>,
        set_pin_mode_sonar(Machine(self), trigger_pin, echo_pin, callback),
        {<<"sonar", trigger_pin>>, <<"sonar", echo_pin>>})

\* set_pin_mode_spi with the default chip select and a speed of the caller's
Call_set_pin_mode_spi_speed(spi_port, speed_maximum) ==
    Api("set_pin_mode_spi", <<spi_port, None, speed_maximum>>,
        set_pin_mode_spi(Machine(self), spi_port, None, speed_maximum, 1, 0),
        {<<"spi", spi_port>>, <<"cs", IF spi_port = 0 THEN 17 ELSE 13>>})

Call_pwm_range(range_pwm) ==
    Api("pwm_range", <<range_pwm>>, pwm_range(Machine(self), range_pwm), {})

Call_disable_all_reporting ==
    Api("disable_all_reporting", <<>>, disable_all_reporting(Machine(self)), {})

Call_enable_digital_reporting(pin) ==
    Api("enable_digital_reporting", <<pin>>,
        enable_digital_reporting(Machine(self), pin), {})

Call_reset_board == Api("reset_board", <<>>, reset_board(Machine(self)), {})

Call_shutdown == Api("shutdown", <<>>, shutdown(Machine(self), 0), {})

\* the serial link fails under the engine (the cable is pulled): the port object
\* stays attached and its writes and reads raise from now on
TransportFault ==
    /\ self.serial_port = "open"
    /\ self' = [self EXCEPT !.serial_port = "broken"]
    /\ last' = [NoCall EXCEPT !.op = "TransportFault"]
    /\ UNCHANGED <<session, calls_left, granted, rx, arrived, disp, bridge, app>>

----------------------------------------------------------------------------
(* Report handlers: each runs to its first suspension and says how it ended *)

Returned(s) == [s |-> s, how |-> "returned", cb |-> NoCallback, exc |-> "none"]

Awaiting(s, cb) == [s |-> s, how |-> "awaiting", cb |-> cb, exc |-> "none"]

Raised(s, e) == [s |-> s, how |-> "raised", cb |-> NoCallback, exc |-> e]

\* "await cb(message)": None is not callable
AwaitCallback(s, cb) ==
    IF cb = NoCallback THEN Raised(s, "TypeError") ELSE Awaiting(s, cb)

\* a handler that only prints
HandlerShutdown_bad(s) == s

\* "if self.shutdown_on_exception: await self.shutdown()" inside a handler
HandlerShutdown(s) ==
    IF s.shutdown_on_exception THEN shutdown(Machine(s), 2).s ELSE s

report_loop_data(s, data) ==
    IF s.loop_back_callback # NoCallback
    THEN Awaiting(s, s.loop_back_callback)
    ELSE Returned(s)

report_debug_data(s, data) ==
    IF Len(data) < 3 THEN Raised(s, "IndexError") ELSE Returned(s)

digital_message(s, data) ==
    IF Len(data) < 2 THEN Returned(s)
    ELSE IF ~Has(s.digital_callbacks, data[1]) THEN Raised(s, "KeyError")
    ELSE Awaiting(s, s.digital_callbacks[data[1]])

analog_message(s, data) ==
    IF Len(data) < 3 THEN Raised(s, "IndexError")
    ELSE IF ~Has(s.analog_callbacks, data[1]) THEN Raised(s, "KeyError")
    ELSE Awaiting(s, s.analog_callbacks[data[1]])

\* struct.unpack('<f', ...) takes exactly four bytes
cpu_temp_message(s, data) ==
    IF Len(data) # 4 THEN Raised(s, "struct.error")
    ELSE IF s.cpu_temp_callback # NoCallback
    THEN Awaiting(s, s.cpu_temp_callback)
    ELSE Returned(s)

report_unique_id(s, data) ==
    Returned([s EXCEPT !.reported_pico_id = @ \o data])

report_firmware_version(s, data) ==
    Returned([s EXCEPT !.firmware_version = @ \o data])

servo_unavailable(s, report) == Raised(HandlerShutdown(s), "RuntimeError")

\* cb_list[1] is data[0], the port: callback2 for a port other than 0
i2c_read_report(s, data) ==
    IF Len(data) < 2 THEN Raised(s, "IndexError")
    ELSE AwaitCallback(s, IF data[1] # 0 THEN s.i2c_callback2
                          ELSE s.i2c_callback)

i2c_too_few_bytes_received(s, data) ==
    IF Len(data) < 1 THEN Raised(s, "IndexError")
    ELSE Returned(HandlerShutdown(s))

i2c_too_many_bytes_received(s, data) ==
    IF Len(data) < 1 THEN Raised(s, "IndexError")
    ELSE Returned(HandlerShutdown(s))

sonar_distance_report(s, report) ==
    IF Len(report) < 1 THEN Raised(s, "IndexError")
    ELSE IF ~Has(s.sonar_callbacks, report[1]) THEN Raised(s, "KeyError")
    ELSE IF Len(report) < 3 THEN Raised(s, "IndexError")
    ELSE Awaiting(s, s.sonar_callbacks[report[1]])

\* the error branch calls the callback without awaiting it: the coroutine it
\* makes is never run; the data branch swallows KeyError
dht_report(s, report) ==
    IF Len(report) < 1 THEN Raised(s, "IndexError")
    ELSE IF report[1] # 0
    THEN IF Len(report) < 2 THEN Raised(s, "IndexError")
         ELSE IF ~Has(s.dht_callbacks, report[2]) THEN Raised(s, "KeyError")
         ELSE Returned(s)
    ELSE IF Len(report) < 8 THEN Raised(s, "IndexError")
    ELSE IF ~Has(s.dht_callbacks, report[2]) THEN Returned(s)
    ELSE Awaiting(s, s.dht_callbacks[report[2]])

spi_report(s, report) ==
    IF Len(report) < 2 THEN Raised(s, "IndexError")
    ELSE AwaitCallback(s, IF report[1] # 0 THEN s.spi_callback2
                          ELSE s.spi_callback)

\* the keys of report_dispatch
ReportIds ==
    {LOOP_COMMAND, DEBUG_PRINT, DIGITAL_REPORT, ANALOG_REPORT, CPU_TEMP_REPORT,
     UNIQUE_ID_REPORT, FIRMWARE_REPORT, SERVO_UNAVAILABLE, I2C_READ_REPORT,
     I2C_TOO_FEW_BYTES_RECEIVED, I2C_TOO_MANY_BYTES_RECEIVED, SONAR_DISTANCE,
     DHT_REPORT, SPI_REPORT}

\* self.report_dispatch[report](data)
report_dispatch(s, report, data) ==
    CASE report = LOOP_COMMAND -> report_loop_data(s, data)
      [] report = DEBUG_PRINT -> report_debug_data(s, data)
      [] report = DIGITAL_REPORT -> digital_message(s, data)
      [] report = ANALOG_REPORT -> analog_message(s, data)
      [] report = CPU_TEMP_REPORT -> cpu_temp_message(s, data)
      [] report = UNIQUE_ID_REPORT -> report_unique_id(s, data)
      [] report = FIRMWARE_REPORT -> report_firmware_version(s, data)
      [] report = SERVO_UNAVAILABLE -> servo_unavailable(s, data)
      [] report = I2C_READ_REPORT -> i2c_read_report(s, data)
      [] report = I2C_TOO_FEW_BYTES_RECEIVED -> i2c_too_few_bytes_received(s, data)
      [] report = I2C_TOO_MANY_BYTES_RECEIVED -> i2c_too_many_bytes_received(s, data)
      [] report = SONAR_DISTANCE -> sonar_distance_report(s, data)
      [] report = DHT_REPORT -> dht_report(s, data)
      [] report = SPI_REPORT -> spi_report(s, data)
      [] OTHER -> Raised(s, "KeyError")

----------------------------------------------------------------------------
(* The dispatcher task, _pico_report_dispatcher, one action per resumption *)

\* read(n) takes the first n bytes of the stream
Take(stream, n) == SubSeq(stream, 1, n)

Drop(stream, n) == SubSeq(stream, n + 1, Len(stream))

\* "packet[1:]"
Payload_bad(packet) == packet

Payload(packet) == Tail(packet)

\* "await self.report_dispatch[report](...)": the loop stays where its handler
\* is suspended
AwaitHandler_bad(where) == "sleep"

AwaitHandler(where) == where

\* the dispatcher after the packet is in hand: "report = packet[0]", the table
\* lookup and the handler up to its first suspension
Dispatch(s, d, packet) ==
    IF packet = <<>>
    THEN [s |-> s, d |-> [d EXCEPT !.pc = "crashed", !.exc = "IndexError"]]
    ELSE
    LET report == packet[1]
        data == Payload(packet)
        h == report_dispatch(s, report, data)
        n == Len(d.started) + 1
        d1 == [d EXCEPT !.report = report, !.data = data, !.decoded = @ + 1]
    IN  IF report \notin ReportIds
        THEN [s |-> s, d |-> [d1 EXCEPT !.pc = "crashed", !.exc = "KeyError"]]
        ELSE [s |-> h.s,
              d |-> [d1 EXCEPT
                       !.started = Append(@, <<report, data>>),
                       !.running = IF h.how = "awaiting" THEN @ \cup {n} ELSE @,
                       !.finished = IF h.how = "awaiting" THEN @ ELSE Append(@, n),
                       !.exc = h.exc,
                       !.pc = IF h.how = "raised" THEN "crashed"
                              ELSE IF h.how = "awaiting"
                              THEN AwaitHandler("callback")
                              ELSE "sleep"]]

\* a loop top that does not look at the flag
Wake_bad ==
    /\ disp.pc = "sleep"
    /\ disp' = [disp EXCEPT !.pc = "read_length"]
    /\ UNCHANGED <<self, last, session, calls_left, granted, rx, arrived,
                   bridge, app>>

\* the loop top, reached from asyncio.sleep(sleep_tune) or when the task first
\* runs: "if self.shutdown_flag: break", else on to the read of the length
Wake ==
    /\ disp.pc = "sleep"
    /\ disp' = [disp EXCEPT !.pc = IF self.shutdown_flag THEN "stopped"
                                   ELSE "read_length"]
    /\ UNCHANGED <<self, last, session, calls_left, granted, rx, arrived,
                   bridge, app>>

\* "packet_length = await self.serial_port.read()": waits for a byte; a port
\* that is closed or has failed raises OSError, which breaks the loop
ReadLength ==
    /\ disp.pc = "read_length"
    /\ IF self.serial_port # "open"
       THEN /\ disp' = [disp EXCEPT !.pc = "stopped"]
            /\ UNCHANGED rx
       ELSE /\ Len(rx) >= 1
            /\ disp' = [disp EXCEPT !.packet_length = Head(rx),
                                    !.pc = "read_packet"]
            /\ rx' = Tail(rx)
    /\ UNCHANGED <<self, last, session, calls_left, granted, arrived, bridge, app>>

\* "packet = await self.serial_port.read(packet_length)", then the dispatch
ReadPacket ==
    /\ disp.pc = "read_packet"
    /\ IF self.serial_port # "open"
       THEN /\ disp' = [disp EXCEPT !.pc = "stopped"]
            /\ UNCHANGED <<self, rx>>
       ELSE /\ Len(rx) >= disp.packet_length
            /\ LET after == Dispatch(self, disp, Take(rx, disp.packet_length))
               IN  /\ self' = after.s
                   /\ disp' = after.d
            /\ rx' = Drop(rx, disp.packet_length)
    /\ UNCHANGED <<last, session, calls_left, granted, arrived, bridge, app>>

\* the user's callback coroutine finishes and with it the handler awaiting it;
\* the loop goes on to asyncio.sleep(sleep_tune)
CallbackReturns ==
    /\ \E n \in disp.running :
           disp' = [disp EXCEPT !.running = @ \ {n},
                                !.finished = Append(@, n),
                                !.pc = IF @ = "callback" THEN "sleep" ELSE @]
    /\ UNCHANGED <<self, last, session, calls_left, granted, rx, arrived,
                   bridge, app>>

\* the firmware sends a report frame: [len][reportId][data...]
FirmwareSends(packet) ==
    /\ self.serial_port = "open"
    /\ Len(arrived) < MaxReports
    /\ rx' = rx \o <<Len(packet)>> \o packet
    /\ arrived' = Append(arrived, <<Len(packet)>> \o packet)
    /\ UNCHANGED <<self, last, session, calls_left, granted, disp, bridge, app>>

----------------------------------------------------------------------------
(* start_aio() awaited by the application on an engine made with autostart
   off: one action per resumption, the dispatcher running during its sleeps *)

\* "if self.pico_instance_id: if self.reported_pico_id != self.pico_instance_id"
IdRejected(s) ==
    s.pico_instance_id # <<>> /\ s.reported_pico_id # s.pico_instance_id

\* a stretch of start_aio has run with outcome m: an exception leaves it
StartRuns(m, next) ==
    /\ self' = m.s
    /\ app' = [app EXCEPT !.op = "start_aio",
                          !.pc = IF Ok(m) THEN next ELSE "done",
                          !.exc = m.exc,
                          !.log = app.log \o m.log]
    /\ UNCHANGED <<last, session, calls_left, granted, rx, arrived, bridge>>

\* the dispatcher task is created, the port is attached, and _get_pico_id
\* sends its command; sleep(.1)
StartBegins ==
    /\ app.pc = "idle"
    /\ self.serial_port = "None"
    /\ StartRuns(send_command(Machine([self EXCEPT !.serial_port = "open"]),
                              <<RETRIEVE_PICO_UNIQUE_ID>>, 2), "sleep_id")
    /\ disp' = NewDispatcher("open")

\* start_aio awaited again on an engine that shutdown has closed: nothing in
\* it looks at the flag or at the old port; the loop runs again, a new
\* transport is attached and _get_pico_id sends its command
StartAgain ==
    /\ app.pc \in {"idle", "done"}
    /\ self.serial_port = "closed"
    /\ StartRuns(send_command(Machine([self EXCEPT !.serial_port = "open",
                                                   !.loop_stopped = FALSE]),
                              <<RETRIEVE_PICO_UNIQUE_ID>>, 2), "sleep_id")
    /\ disp' = NewDispatcher("open")

\* after sleep(.1): an id other than the expected one ends in sys.exit(0);
\* else _get_firmware_version sends its command; sleep(.1)
StartAfterId ==
    /\ app.pc = "sleep_id"
    /\ IF IdRejected(self)
       THEN StartRuns(Raise(Machine(self), "SystemExit", "id"), "done")
       ELSE StartRuns(send_command(Machine(self), <<GET_FIRMWARE_VERSION>>, 2),
                      "sleep_version")
    /\ UNCHANGED disp

\* after sleep(.1): "if not firmware_version: raise RuntimeError"
StartAfterVersion ==
    /\ app.pc = "sleep_version"
    /\ IF self.firmware_version = <<>>
       THEN StartRuns(Raise(Machine(self), "RuntimeError", "version"), "done")
       ELSE StartRuns(Machine(self), "done")
    /\ UNCHANGED disp

----------------------------------------------------------------------------
(* shutdown() awaited by the application while the dispatcher task runs: one
   action per resumption, the other tasks running during its sleeps *)

\* the coroutine goes on from where it slept
Resumed == [Machine(self) EXCEPT !.log = app.log]

\* a stretch of shutdown has run with outcome m: an exception leaves the try,
\* where "except (RuntimeError, SerialException): pass" ends the coroutine;
\* decoded keeps how many reports the dispatcher had decoded at the start
ShutdownRuns(m, next) ==
    /\ self' = m.s
    /\ app' = [app EXCEPT !.op = "shutdown",
                          !.pc = IF Ok(m) THEN next ELSE "done",
                          !.exc = Swallow(m).exc,
                          !.decoded = IF app.pc = "idle" THEN disp.decoded
                                      ELSE @,
                          !.log = m.log]
    /\ UNCHANGED <<last, session, calls_left, granted, rx, arrived, disp, bridge>>

\* the flag is set and the stop-all-reports command written; sleep(.5)
ShutdownBegins ==
    /\ app.pc = "idle"
    /\ self.serial_port # "None"
    /\ ShutdownRuns(shutdown_stop(SetFlag(Machine(self))), "sleep_stop")

\* after sleep(.5): the reset command and sleep(.2), or straight on to close
ShutdownAfterStop ==
    /\ app.pc = "sleep_stop"
    /\ LET m == shutdown_reset(Resumed)
       IN  IF self.reset_on_shutdown THEN ShutdownRuns(m, "sleep_reset")
           ELSE ShutdownRuns(shutdown_close(m), "done")

\* after sleep(.2): close and loop.stop()
ShutdownAfterReset ==
    /\ app.pc = "sleep_reset"
    /\ ShutdownRuns(shutdown_close(Resumed), "done")

----------------------------------------------------------------------------
(* TelemetrixBle, the bridge: caller threads hand coroutines to the event loop
   that the worker thread runs, and wait for their futures *)

\* the threads that call the bridge from outside: t1 is a plain thread, t2 a
\* thread that runs an event loop of its own (the bridge never looks at it)
Callers == {"t1", "t2"}

\* every thread that can be inside a bridge call: the callers, and the worker
\* thread while its loop runs receive_notification_callback
Threads == Callers \cup {"worker"}

\* the number of bridge calls in a session
MaxBridgeCalls == 3

\* the bridge when __init__ returns: the worker thread is in run_forever
NewBridge ==
    [loop |-> "running", ready |-> <<>>, work |-> <<>>, future |-> <<>>,
     ble_device |-> "None", bleak_client |-> "None", sent |-> <<>>,
     thread |-> [t \in Threads |-> [pc |-> "idle", waits |-> 0, got |-> <<>>]]]

\* the coroutine ends: its future gets the result or the exception
Finish(b, id, state, value) ==
    [b EXCEPT !.work[id].pc = "done",
              !.future[id] = [state |-> state, value |-> value]]

\* the coroutine suspends at an await
Await(b, id, where) == [b EXCEPT !.work[id].pc = where]

\* what the awaited BLE operation can come back with
Outcomes(pc) ==
    CASE pc = "scan" -> {"None", "found"}
      [] pc = "connect" -> {"connected", "not_connected", "raise"}
      [] pc \in {"notify", "write", "disconnect"} -> {"ok", "raise"}
      [] OTHER -> {}

\* _connect_async from one suspension to the next
connect_async(b, id, outcome) ==
    CASE b.work[id].pc = "start" -> Await(b, id, "scan")
      [] b.work[id].pc = "scan" ->
             IF outcome = "None"
             THEN Finish([b EXCEPT !.ble_device = "None"], id, "exception",
                         "RuntimeError")
             ELSE Await([b EXCEPT !.ble_device = "found",
                                  !.bleak_client = "created"], id, "connect")
      [] b.work[id].pc = "connect" ->
             IF outcome = "raise" THEN Finish(b, id, "exception", "BleakError")
             ELSE IF outcome = "not_connected"
             THEN Finish(b, id, "exception", "RuntimeError")
             ELSE Await([b EXCEPT !.bleak_client = "connected"], id, "notify")
      [] b.work[id].pc = "notify" ->
             IF outcome = "raise" THEN Finish(b, id, "exception", "BleakError")
             ELSE Finish(b, id, "result", "None")

\* _write_async: None has no write_gatt_char
write_async(b, id, outcome) ==
    CASE b.work[id].pc = "start" ->
             IF b.bleak_client = "None"
             THEN Finish(b, id, "exception", "AttributeError")
             ELSE Await(b, id, "write")
      [] b.work[id].pc = "write" ->
             IF outcome = "ok" /\ b.bleak_client = "connected"
             THEN Finish([b EXCEPT !.sent = Append(@, b.work[id].data)], id,
                         "result", "None")
             ELSE Finish(b, id, "exception", "BleakError")

\* _disconnect_async
disconnect_async(b, id, outcome) ==
    CASE b.work[id].pc = "start" ->
             IF b.bleak_client # "None" THEN Await(b, id, "disconnect")
             ELSE Finish(b, id, "result", "None")
      [] b.work[id].pc = "disconnect" ->
             IF outcome = "raise" THEN Finish(b, id, "exception", "BleakError")
             ELSE Finish([b EXCEPT !.bleak_client = "disconnected"], id,
                         "result", "None")

\* the loop runs coroutine id up to its next suspension, on the worker thread
RunSlice(b, id, outcome) ==
    LET b1 == [b EXCEPT !.work[id].by = @ \cup {"worker"}]
    IN  CASE b.work[id].op = "connect" -> connect_async(b1, id, outcome)
          [] b.work[id].op = "write" -> write_async(b1, id, outcome)
          [] b.work[id].op = "disconnect" -> disconnect_async(b1, id, outcome)

\* asyncio.run_coroutine_threadsafe(coro, self._loop): a new future, and a
\* handle in the loop's ready queue that will start the coroutine
run_coroutine_threadsafe(b, t, op, data) ==
    LET id == Len(b.work) + 1
    IN  [b EXCEPT !.work = Append(@, [op |-> op, data |-> data, pc |-> "start",
                                      caller |-> t, by |-> {}]),
                  !.future = Append(@, [state |-> "pending", value |-> "None"]),
                  !.ready = Append(@, id),
                  !.thread[t] = [pc |-> "waiting", waits |-> id, got |-> <<>>]]

\* "future.result()" returns once the future is done
FutureDone_bad(f) == TRUE

FutureDone(f) == f.state # "pending"

\* the engine's variables, which the bridge does not touch
EngineVars ==
    <<self, last, session, calls_left, granted, rx, arrived, disp, app>>

\* a caller thread enters connect, write or disconnect: _run_coroutine submits
\* the coroutine and blocks in future.result()
Call_bridge(t, op, data) ==
    /\ bridge.thread[t].pc = "idle"
    /\ Len(bridge.work) < MaxBridgeCalls
    /\ bridge' = run_coroutine_threadsafe(bridge, t, op, data)
    /\ UNCHANGED EngineVars

\* future.result() returns in thread t, with the result or by raising the
\* exception; connect and write return it, disconnect goes on to stop the loop
\* when no exception was raised; in the worker thread the callback then
\* returns to the loop
ResultReturns(t) ==
    LET id == bridge.thread[t].waits
        f == bridge.future[id]
    IN  /\ bridge.thread[t].pc = "waiting"
        /\ FutureDone(f)
        /\ bridge' = [bridge EXCEPT
                        !.loop = IF t = "worker" THEN "running" ELSE @,
                        !.thread[t].got = <<id, f.state, f.value>>,
                        !.thread[t].pc =
                            IF bridge.work[id].op = "disconnect"
                               /\ f.state = "result"
                            THEN "stopping" ELSE "idle"]
        /\ UNCHANGED EngineVars

\* disconnect: "self._loop.call_soon_threadsafe(self._loop.stop)", then return
StopLoop(t) ==
    /\ bridge.thread[t].pc = "stopping"
    /\ bridge' = [bridge EXCEPT !.ready = Append(@, 0),
                                !.thread[t].pc = "idle"]
    /\ UNCHANGED EngineVars

\* the worker's loop takes the next handle of its ready queue: a coroutine to
\* start, or loop.stop, which ends run_forever
LoopRunsReady ==
    /\ bridge.loop = "running"
    /\ bridge.ready # <<>>
    /\ LET b == [bridge EXCEPT !.ready = Tail(@)]
           id == Head(bridge.ready)
       IN  bridge' = IF id = 0 THEN [b EXCEPT !.loop = "stopped"]
                     ELSE RunSlice(b, id, "none")
    /\ UNCHANGED EngineVars

\* the BLE operation a coroutine awaits completes and the loop resumes it
LoopResumes(id, outcome) ==
    /\ bridge.loop = "running"
    /\ id \in 1..Len(bridge.work)
    /\ outcome \in Outcomes(bridge.work[id].pc)
    /\ bridge' = RunSlice(bridge, id, outcome)
    /\ UNCHANGED EngineVars

\* a notification arrives after start_notify succeeded: the worker's loop
\* calls receive_notification_callback, and the handler answers the report
\* with "write(data)", which submits the coroutine to the loop it is running
\* on and blocks the worker thread in future.result()
NotificationCallback(data) ==
    /\ bridge.loop = "running"
    /\ bridge.bleak_client = "connected"
    /\ \E id \in 1..Len(bridge.work) :
           bridge.work[id].op = "connect" /\ bridge.future[id].state = "result"
    /\ bridge.thread["worker"].pc = "idle"
    /\ Len(bridge.work) < MaxBridgeCalls
    /\ bridge' = [run_coroutine_threadsafe(bridge, "worker", "write", data)
                     EXCEPT !.loop = "callback"]
    /\ UNCHANGED EngineVars

----------------------------------------------------------------------------
(* Sessions of public calls *)

\* the pins the calls name: a legal pin and one the Pico does not have
Pins == {2, 23}

\* a session starts from a new engine, started or not
InitWith(configs, ports, kind) ==
    /\ \E c \in configs, port \in ports :
           /\ self = NewEngine(c[1], c[2], c[3], port)
           /\ disp = NewDispatcher(port)
    /\ last = NoCall
    /\ session = kind
    /\ calls_left = IF kind = "bounded" THEN MaxCalls ELSE 0
    /\ granted = {}
    /\ rx = <<>>
    /\ arrived = <<>>
    /\ bridge = NewBridge
    /\ app = NoTask

Init ==
    InitWith({<<TRUE, TRUE, TRUE>>, <<FALSE, TRUE, TRUE>>, <<TRUE, FALSE, FALSE>>},
             {"open", "None"}, "bounded")

Next ==
    \/ \E pin \in Pins : Call_set_pin_mode_digital_input(pin, "cbA")
    \/ \E pin \in Pins : Call_set_pin_mode_digital_input_pullup(pin, "cbA")
    \/ \E pin \in Pins : Call_set_pin_mode_digital_input_pull_down(pin, NoCallback)
    \/ \E pin \in Pins : Call_set_pin_mode_digital_output(pin)
    \/ \E adc \in {0, 3, 5} : Call_set_pin_mode_analog_input(adc, 258, "cbA")
    \/ \E pin \in Pins : Call_set_pin_mode_pwm_output(pin)
    \/ \E pin \in Pins : Call_set_pin_mode_servo(pin)
    \/ \E pin \in Pins, cb \in {"cbA", NoCallback} : Call_set_pin_mode_dht(pin, cb)
    \/ \E pin \in Pins : Call_set_pin_mode_sonar(pin, 3, "cbA")
    \/ \E pin \in Pins : Call_set_pin_mode_neopixel(pin, 8)
    \/ \E port \in {0, 1} : Call_set_pin_mode_i2c(port, 4, 5)
    \/ \E port \in {0, 1}, cs \in {None, 23} : Call_set_pin_mode_spi(port, cs)
    \/ \E pin \in Pins : Call_digital_write(pin, 1)
    \/ \E pin \in Pins, duty \in {300, 20001} : Call_pwm_write(pin, duty)
    \/ \E pin \in Pins : Call_servo_write(pin, 90)
    \/ \E port \in {0, 1}, reg \in {None, 7}, cb \in {"cbA", NoCallback} :
           Call_i2c_read(port, reg, cb)
    \/ \E port \in {0, 1} : Call_i2c_write(port, <<1, 2>>)
    \/ \E pin \in {17, 23} : Call_spi_cs_control(pin, 0)
    \/ \E port \in {0, 1}, cb \in {"cbA", NoCallback} :
           Call_spi_read_blocking(port, cb)
    \/ \E port \in {0, 1} : Call_spi_set_format(port)
    \/ \E port \in {0, 1} : Call_spi_write_blocking(port, <<9>>)
    \/ \E px \in {0, 8}, r \in {255, 256}, show \in BOOLEAN :
           Call_neo_pixel_set_value(px, r, show)
    \/ \E show \in BOOLEAN : Call_neopixel_clear(show)
    \/ \E r \in {255, 256}, show \in BOOLEAN : Call_neopixel_fill(r, show)
    \/ Call_neopixel_show
    \/ \E r \in {15, 16, 65535} : Call_pwm_range(r)
    \/ Call_disable_all_reporting
    \/ Call_enable_digital_reporting(2)
    \/ Call_reset_board
    \/ Call_shutdown
    \/ TransportFault

Spec == Init /\ [][Next]_vars

----------------------------------------------------------------------------
(* Sessions that fill the PWM slots: set_pin_mode_pwm_output on one new legal
   pin after another, in ascending order *)

PwmPins == 0..16

NextPwm ==
    \E pin \in PwmPins :
        /\ \A q \in PwmPins : q >= pin => self.pico_pins[q] = AT_MODE_NOT_SET
        /\ Call_set_pin_mode_pwm_output(pin)

InitPwm ==
    InitWith({<<TRUE, TRUE, TRUE>>, <<FALSE, TRUE, TRUE>>}, {"open"}, "free")

SpecPwm == InitPwm /\ [][NextPwm]_vars

----------------------------------------------------------------------------
(* Sessions of any length over the operations that count resources *)

NextCounters ==
    \/ \E pin \in Pins : Call_set_pin_mode_pwm_output(pin)
    \/ Call_set_pin_mode_sonar(4, 5, "cbA")
    \/ \E cb \in {"cbA", NoCallback} : Call_set_pin_mode_dht(6, cb)
    \/ Call_reset_board
    \/ Call_shutdown

InitCounters ==
    InitWith({<<TRUE, TRUE, TRUE>>, <<FALSE, TRUE, TRUE>>}, {"open", "None"},
             "free")

SpecCounters == InitCounters /\ [][NextCounters]_vars

----------------------------------------------------------------------------
(* The dispatcher at work: handlers bound, the firmware reporting *)

\* the engine after the calls that bind the handlers named in bind
Setup(s, bind) ==
    LET m1 == IF "digital" \in bind
              THEN set_pin_mode_digital_input(Machine(s), 2, "cbA")
              ELSE Machine(s)
        m2 == IF "analog" \in bind
              THEN set_pin_mode_analog_input(m1, 0, 0, "cbB")
              ELSE m1
        m3 == IF "sonar" \in bind
              THEN set_pin_mode_sonar(m2, 6, 7, "cbC")
              ELSE m2
    IN  m3.s

\* the reports the firmware sends: a digital change on pin 2, an analog value
\* on ADC 0, a sonar distance for trigger pin 6
Reports ==
    {<<DIGITAL_REPORT, 2, 1>>, <<ANALOG_REPORT, 0, 1, 4>>,
     <<SONAR_DISTANCE, 6, 20, 0>>}

InitDisp ==
    /\ \E c \in {<<TRUE, TRUE, TRUE>>, <<FALSE, FALSE, FALSE>>},
          bind \in SUBSET {"digital", "analog", "sonar"} :
           self = Setup(NewEngine(c[1], c[2], c[3], "open"), bind)
    /\ disp = NewDispatcher("open")
    /\ last = NoCall
    /\ session = "bounded"
    /\ calls_left = MaxCalls
    /\ granted = {}
    /\ rx = <<>>
    /\ arrived = <<>>
    /\ bridge = NewBridge
    /\ app = NoTask

NextDisp ==
    \/ \E packet \in Reports : FirmwareSends(packet)
    \/ Wake
    \/ ReadLength
    \/ ReadPacket
    \/ CallbackReturns
    \/ Call_shutdown
    \/ TransportFault

SpecDisp == InitDisp /\ [][NextDisp]_vars

----------------------------------------------------------------------------
(* The codec end to end: one command through _send_command onto a transport
   that loops back into the dispatcher's reads *)

\* the longest payload tried
MaxPayload == 255

\* a payload of the given length whose bytes count up from first
PayloadOf(length, first) == [i \in 1..length |-> (first + i - 1) % 256]

\* _send_command([id] + payload) on a loopback transport
Call_send_command(id, payload) ==
    LET m == send_command(Machine(self), <<id>> \o payload, 1)
    IN  /\ last.op = "init"
        /\ Called("_send_command", <<id, payload>>, m, {})
        /\ rx' = IF m.tx = <<>> THEN rx ELSE rx \o m.tx[1]
        /\ arrived' = arrived \o m.tx

NextCodec ==
    \/ \E id \in {LOOP_COMMAND, DIGITAL_REPORT, 255}, length \in 0..MaxPayload,
          first \in {0, 200} :
           Call_send_command(id, PayloadOf(length, first))
    \/ Wake
    \/ ReadLength
    \/ ReadPacket

InitCodec ==
    InitWith({<<TRUE, TRUE, TRUE>>, <<FALSE, TRUE, TRUE>>}, {"open"}, "bounded")

SpecCodec == InitCodec /\ [][NextCodec]_vars

----------------------------------------------------------------------------
(* The dispatcher fed every kind of report, bound or not, known or not *)

\* a digital change on pin 2, a sonar distance for trigger pin 6, DHT data for
\* pin 9, an I2C read of one byte on port 0, an SPI read of one byte on port 1,
\* and a frame whose report id is no key of report_dispatch
FirmwareReports ==
    {<<DIGITAL_REPORT, 2, 1>>, <<SONAR_DISTANCE, 6, 20, 0>>,
     <<DHT_REPORT, 0, 9, 0, 0, 40, 0, 21, 5>>,
     <<I2C_READ_REPORT, 0, 83, 7, 1, 66>>, <<SPI_REPORT, 1, 1, 66>>,
     <<77, 1>>}

NextReports ==
    \/ \E packet \in FirmwareReports : FirmwareSends(packet)
    \/ Wake
    \/ ReadLength
    \/ ReadPacket
    \/ CallbackReturns
    \/ TransportFault

SpecReports == InitDisp /\ [][NextReports]_vars

----------------------------------------------------------------------------
(* Sessions that activate the shared buses, on pins free and taken *)

NextBus ==
    \/ \E pin \in {4, 16} : Call_set_pin_mode_digital_output(pin)
    \/ \E port \in {0, 1}, sda \in {4, 5, 8}, scl \in {5, 9} :
           Call_set_pin_mode_i2c(port, sda, scl)
    \/ \E port \in {0, 1}, cs \in {None, 4, 23} : Call_set_pin_mode_spi(port, cs)

SpecBus == Init /\ [][NextBus]_vars

----------------------------------------------------------------------------
(* Sessions that hand out the PWM slots to PWM outputs and servos: one call
   after another, each on the lowest pin not used yet *)

NextSlots ==
    \E pin \in PwmPins :
        /\ \A q \in PwmPins : self.pico_pins[q] = AT_MODE_NOT_SET <=> q >= pin
        /\ \/ Call_set_pin_mode_pwm_output(pin)
           \/ Call_set_pin_mode_servo(pin)

SpecSlots == InitPwm /\ [][NextSlots]_vars

----------------------------------------------------------------------------
(* Sessions of bridge calls from two threads *)

InitBridge ==
    InitWith({<<TRUE, TRUE, TRUE>>}, {"None"}, "bounded")

NextBridge ==
    \/ \E t \in Callers : Call_bridge(t, "connect", <<>>)
    \/ \E t \in Callers, data \in {<<1, 15>>} : Call_bridge(t, "write", data)
    \/ \E t \in Callers : Call_bridge(t, "disconnect", <<>>)
    \/ \E t \in Callers : ResultReturns(t)
    \/ \E t \in Callers : StopLoop(t)
    \/ LoopRunsReady
    \/ \E id \in 1..MaxBridgeCalls, outcome \in {"None", "found", "connected",
                                                 "not_connected", "raise", "ok"} :
           LoopResumes(id, outcome)

SpecBridge == InitBridge /\ [][NextBridge]_vars

----------------------------------------------------------------------------
(* Bridge calls from every context, the bridge left connected: the callers'
   threads and the notification handler.  The loop keeps taking the handles
   of its ready queue while it runs, a BLE operation that is awaited comes
   back, and a thread blocked on a finished future wakes up. *)

NextNotify ==
    \/ \E t \in Callers : Call_bridge(t, "connect", <<>>)
    \/ \E t \in Callers, data \in {<<1, 15>>} : Call_bridge(t, "write", data)
    \/ \E data \in {<<2, 4, 1>>} : NotificationCallback(data)
    \/ \E t \in Threads : ResultReturns(t)
    \/ LoopRunsReady
    \/ \E id \in 1..MaxBridgeCalls, outcome \in {"None", "found", "connected",
                                                 "not_connected", "raise", "ok"} :
           LoopResumes(id, outcome)

LoopResumesSome ==
    \E id \in 1..MaxBridgeCalls, outcome \in {"None", "found", "connected",
                                              "not_connected", "raise", "ok"} :
        LoopResumes(id, outcome)

SpecNotify ==
    /\ InitBridge
    /\ [][NextNotify]_vars
    /\ WF_vars(LoopRunsReady)
    /\ WF_vars(LoopResumesSome)
    /\ \A t \in Threads : WF_vars(ResultReturns(t))

----------------------------------------------------------------------------
(* Bus reads and their replies: both I2C ports and both SPI ports set up, the
   application issuing reads with either of two handlers, the firmware
   answering for either port *)

\* the engine with set_pin_mode_i2c and set_pin_mode_spi done for ports 0, 1
BusesUp(s) ==
    LET m1 == set_pin_mode_i2c(Machine(s), 0, 4, 5)
        m2 == set_pin_mode_i2c(m1, 1, 6, 7)
        m3 == set_pin_mode_spi(m2, 0, None, 500000, 1, 0)
        m4 == set_pin_mode_spi(m3, 1, None, 500000, 1, 0)
    IN  m4.s

\* read replies: an I2C read report and an SPI report for each port
BusReports ==
    {<<I2C_READ_REPORT, 0, 83, 7, 1, 66>>, <<I2C_READ_REPORT, 1, 83, 7, 1, 66>>,
     <<SPI_REPORT, 0, 1, 66>>, <<SPI_REPORT, 1, 1, 66>>}

InitRoute ==
    /\ self = BusesUp(NewEngine(TRUE, TRUE, TRUE, "open"))
    /\ disp = NewDispatcher("open")
    /\ last = NoCall
    /\ session = "free"
    /\ calls_left = 0
    /\ granted = {}
    /\ rx = <<>>
    /\ arrived = <<>>
    /\ bridge = NewBridge
    /\ app = NoTask

NextRoute ==
    \/ \E port \in {0, 1}, cb \in {"cbA", "cbB"} : Call_i2c_read(port, 7, cb)
    \/ \E port \in {0, 1}, cb \in {"cbA", "cbB"} :
           Call_spi_read_blocking(port, cb)
    \/ \E packet \in BusReports : FirmwareSends(packet)
    \/ Wake
    \/ ReadLength
    \/ ReadPacket
    \/ CallbackReturns

SpecRoute == InitRoute /\ [][NextRoute]_vars

----------------------------------------------------------------------------
(* The dispatcher while the application shuts the engine down: every handler
   bound, the firmware reporting, shutdown() running beside the dispatcher.
   While the event loop runs it resumes a task that is able to go on: the
   dispatcher at its loop top, its read once bytes are there or the port has
   failed, a handler whose callback can finish, and shutdown() after a sleep.
   A loop that shutdown() has stopped resumes nothing. *)

InitDrain ==
    /\ \E reset \in BOOLEAN, close_loop \in BOOLEAN :
           self = Setup(NewEngine(TRUE, reset, close_loop, "open"),
                        {"digital", "analog", "sonar"})
    /\ disp = NewDispatcher("open")
    /\ last = NoCall
    /\ session = "bounded"
    /\ calls_left = MaxCalls
    /\ granted = {}
    /\ rx = <<>>
    /\ arrived = <<>>
    /\ bridge = NewBridge
    /\ app = NoTask

NextDrain ==
    \/ \E packet \in Reports : FirmwareSends(packet)
    \/ Wake
    \/ ReadLength
    \/ ReadPacket
    \/ CallbackReturns
    \/ ShutdownBegins
    \/ ShutdownAfterStop
    \/ ShutdownAfterReset
    \/ TransportFault

\* the event loop is running
LoopRuns == ~self.loop_stopped

SpecDrain ==
    /\ InitDrain
    /\ [][NextDrain]_vars
    /\ WF_vars(LoopRuns /\ Wake)
    /\ WF_vars(LoopRuns /\ ReadLength)
    /\ WF_vars(LoopRuns /\ ReadPacket)
    /\ WF_vars(LoopRuns /\ CallbackReturns)
    /\ WF_vars(LoopRuns /\ ShutdownAfterStop)
    /\ WF_vars(LoopRuns /\ ShutdownAfterReset)

----------------------------------------------------------------------------
(* The dispatcher fed I2C byte-count faults among ordinary reports *)

\* the two byte-count fault reports for port 0, and a digital change on pin 2
FaultReports ==
    {<<I2C_TOO_FEW_BYTES_RECEIVED, 0>>, <<I2C_TOO_MANY_BYTES_RECEIVED, 0>>,
     <<DIGITAL_REPORT, 2, 1>>}

NextFault ==
    \/ \E packet \in FaultReports : FirmwareSends(packet)
    \/ Wake
    \/ ReadLength
    \/ ReadPacket
    \/ CallbackReturns

SpecFault == InitDisp /\ [][NextFault]_vars

----------------------------------------------------------------------------
(* Startup: start_aio() on engines that expect no id, the board's id or
   another one, the firmware answering the two queries or not *)

\* an id that is not the board's
OtherId == <<8, 7, 6, 5, 4, 3, 2, 1>>

\* the firmware's replies to the two queries of start_aio
IdReports == {<<UNIQUE_ID_REPORT>> \o PicoId, <<FIRMWARE_REPORT>> \o FirmwareVersion}

InitStart ==
    /\ \E policy \in BOOLEAN, id \in {<<>>, PicoId, OtherId} :
           self = [NewEngine(policy, TRUE, TRUE, "None")
                       EXCEPT !.pico_instance_id = id]
    /\ disp = NewDispatcher("None")
    /\ last = NoCall
    /\ session = "bounded"
    /\ calls_left = MaxCalls
    /\ granted = {}
    /\ rx = <<>>
    /\ arrived = <<>>
    /\ bridge = NewBridge
    /\ app = NoTask

NextStart ==
    \/ StartBegins
    \/ StartAfterId
    \/ StartAfterVersion
    \/ \E packet \in IdReports : FirmwareSends(packet)
    \/ Wake
    \/ ReadLength
    \/ ReadPacket
    \/ TransportFault

SpecStart == InitStart /\ [][NextStart]_vars

----------------------------------------------------------------------------
(* Sessions of bridge calls in which every write carries a frame of its own:
   the k-th call submitted writes the frame [1, k] *)

NextOrder ==
    \/ \E t \in Callers : Call_bridge(t, "connect", <<>>)
    \/ \E t \in Callers : Call_bridge(t, "write", <<1, Len(bridge.work) + 1>>)
    \/ \E t \in Callers : Call_bridge(t, "disconnect", <<>>)
    \/ \E t \in Callers : ResultReturns(t)
    \/ \E t \in Callers : StopLoop(t)
    \/ LoopRunsReady
    \/ LoopResumesSome

SpecOrder == InitBridge /\ [][NextOrder]_vars

----------------------------------------------------------------------------
(* Sessions that set the PWM range and write duty cycles to a PWM pin, with
   values on both sides of every limit *)

\* the ranges tried: 15 and 65536 are outside 16..65535
Ranges == {15, 16, 300, 65535, 65536}

\* the duty cycles tried
Duties == {-1, 0, 16, 17, 300, 301, 20000, 20001, 65535, 65536}

InitDuty ==
    /\ \E policy \in BOOLEAN :
           self = set_pin_mode_pwm_output(
                      Machine(NewEngine(policy, TRUE, TRUE, "open")), 2).s
    /\ disp = NewDispatcher("open")
    /\ last = NoCall
    /\ session = "bounded"
    /\ calls_left = MaxCalls
    /\ granted = {}
    /\ rx = <<>>
    /\ arrived = <<>>
    /\ bridge = NewBridge
    /\ app = NoTask

NextDuty ==
    \/ \E r \in Ranges : Call_pwm_range(r)
    \/ \E duty \in Duties : Call_pwm_write(2, duty)

SpecDuty == InitDuty /\ [][NextDuty]_vars

----------------------------------------------------------------------------
(* The dispatcher fed DHT reports for a pin with a bound callback: readings
   and error reports *)

\* a reading for pin 9 (40 % and 21.05 degrees), a checksum error and a
\* timeout error for pin 9
DhtReports ==
    {<<DHT_REPORT, 0, 9, 0, 0, 40, 0, 21, 5>>,
     <<DHT_REPORT, 1, 9, 0, 0, 0, 0, 0, 0>>,
     <<DHT_REPORT, 2, 9, 0, 0, 0, 0, 0, 0>>}

InitDht ==
    /\ \E policy \in BOOLEAN :
           self = set_pin_mode_dht(
                      Machine(NewEngine(policy, TRUE, TRUE, "open")), 9, "cbA").s
    /\ disp = NewDispatcher("open")
    /\ last = NoCall
    /\ session = "bounded"
    /\ calls_left = MaxCalls
    /\ granted = {}
    /\ rx = <<>>
    /\ arrived = <<>>
    /\ bridge = NewBridge
    /\ app = NoTask

NextDht ==
    \/ \E packet \in DhtReports : FirmwareSends(packet)
    \/ Wake
    \/ ReadLength
    \/ ReadPacket
    \/ CallbackReturns

SpecDht == InitDht /\ [][NextDht]_vars

----------------------------------------------------------------------------
(* Sessions of I2C reads on buses that are set up, over the register numbers
   at both ends of the byte range and no register at all *)

\* the registers tried; None is "no register"
Registers == {None, 0, 1, 7, 253, 254}

InitRegister ==
    /\ \E policy \in BOOLEAN :
           self = BusesUp(NewEngine(policy, TRUE, TRUE, "open"))
    /\ disp = NewDispatcher("open")
    /\ last = NoCall
    /\ session = "bounded"
    /\ calls_left = MaxCalls
    /\ granted = {}
    /\ rx = <<>>
    /\ arrived = <<>>
    /\ bridge = NewBridge
    /\ app = NoTask

NextRegister ==
    \E port \in {0, 1}, reg \in Registers, cb \in {"cbA", "cbB"} :
        Call_i2c_read(port, reg, cb)

SpecRegister == InitRegister /\ [][NextRegister]_vars

----------------------------------------------------------------------------
(* Sessions of the calls that carry a number in more than one byte: PWM
   writes and ranges, analog differentials, SPI speeds, with values on both
   sides of every byte boundary *)

\* 4660 is 0x1234, 19088743 is 0x01234567: no two of their bytes are equal
WideDuties == {0, 255, 256, 4660, 20000, 65535}

WideRanges == {16, 255, 256, 4660, 65535}

WideDifferentials == {0, 255, 256, 4660, 65535}

WideSpeeds == {1, 255, 256, 65536, 16777216, 19088743, 49999999}

NextWide ==
    \/ \E r \in WideRanges : Call_pwm_range(r)
    \/ \E duty \in WideDuties : Call_pwm_write(2, duty)
    \/ \E differential \in WideDifferentials :
           Call_set_pin_mode_analog_input(0, differential, "cbA")
    \/ \E speed \in WideSpeeds : Call_set_pin_mode_spi_speed(0, speed)

SpecWide == InitDuty /\ [][NextWide]_vars

----------------------------------------------------------------------------
(* Sessions around a shutdown: the application shuts the engine down, goes on
   calling it, and may start it again *)

NextAfter ==
    \/ Call_shutdown
    \/ Call_set_pin_mode_digital_output(2)
    \/ Call_digital_write(2, 1)
    \/ Call_set_pin_mode_pwm_output(2)
    \/ Call_pwm_write(2, 300)
    \/ Call_i2c_write(0, <<1, 2>>)
    \/ Call_disable_all_reporting
    \/ Call_reset_board
    \/ StartAgain
    \/ StartAfterId
    \/ StartAfterVersion

InitAfter ==
    InitWith({<<TRUE, TRUE, TRUE>>, <<FALSE, TRUE, TRUE>>, <<TRUE, FALSE, FALSE>>},
             {"open"}, "bounded")

SpecAfter == InitAfter /\ [][NextAfter]_vars

----------------------------------------------------------------------------
(* Sessions of bridge calls that go on after a disconnect.  The loop keeps
   taking the handles of its ready queue while it runs, a BLE operation that
   is awaited comes back, a thread blocked on a finished future wakes up, and
   a disconnect that got its result goes on to stop the loop. *)

NextLate ==
    \/ \E t \in Callers : Call_bridge(t, "connect", <<>>)
    \/ \E t \in Callers, data \in {<<1, 15>>} : Call_bridge(t, "write", data)
    \/ \E t \in Callers : Call_bridge(t, "disconnect", <<>>)
    \/ \E t \in Callers : ResultReturns(t)
    \/ \E t \in Callers : StopLoop(t)
    \/ LoopRunsReady
    \/ LoopResumesSome

SpecLate ==
    /\ InitBridge
    /\ [][NextLate]_vars
    /\ WF_vars(LoopRunsReady)
    /\ WF_vars(LoopResumesSome)
    /\ \A t \in Callers : WF_vars(ResultReturns(t))
    /\ \A t \in Callers : WF_vars(StopLoop(t))

----------------------------------------------------------------------------
(* The bridge from its construction on: thread t1 runs __init__, which starts
   the worker thread and waits for _loop_ready; the worker makes its loop,
   publishes it, sets the event and enters run_forever.  The callers have the
   bridge once __init__ has returned.  Every thread that can run keeps running,
   and the loop and the BLE operations go on as in the sessions above. *)

\* the bridge before __init__ runs: "self._loop = None", no worker thread
UnbuiltBridge ==
    [NewBridge EXCEPT
       !.loop = "unset",
       !.thread = [t \in Threads |->
                      [pc |-> IF t = "t1" THEN "constructing"
                              ELSE IF t = "worker" THEN "unstarted"
                              ELSE "no_bridge",
                       waits |-> 0, got |-> <<>>]]]

\* __init__ up to "self._loop_ready.wait()": the worker thread is started
ConstructorStarts ==
    /\ bridge.thread["t1"].pc = "constructing"
    /\ bridge' = [bridge EXCEPT !.thread["t1"].pc = "loop_ready_wait",
                                !.thread["worker"].pc = "idle"]
    /\ UNCHANGED EngineVars

\* run_loop: "self._loop = asyncio.new_event_loop()" and set_event_loop
WorkerCreatesLoop ==
    /\ bridge.thread["worker"].pc = "idle"
    /\ bridge.loop = "unset"
    /\ bridge' = [bridge EXCEPT !.loop = "set"]
    /\ UNCHANGED EngineVars

\* run_loop: "self._loop_ready.set()"
WorkerSignals ==
    /\ bridge.loop = "set"
    /\ bridge' = [bridge EXCEPT !.loop = "ready"]
    /\ UNCHANGED EngineVars

\* run_loop: "self._loop.run_forever()" is entered
WorkerRunsForever ==
    /\ bridge.loop = "ready"
    /\ bridge' = [bridge EXCEPT !.loop = "running"]
    /\ UNCHANGED EngineVars

\* a constructor that does not wait for the event
ConstructorReturns_bad ==
    /\ bridge.thread["t1"].pc = "loop_ready_wait"
    /\ bridge' = [bridge EXCEPT !.thread["t1"].pc = "idle",
                                !.thread["t2"].pc = "idle"]
    /\ UNCHANGED EngineVars

\* "self._loop_ready.wait()" returns once the event is set, and __init__ with
\* it: the application has its bridge
ConstructorReturns ==
    /\ bridge.thread["t1"].pc = "loop_ready_wait"
    /\ bridge.loop \notin {"unset", "set"}
    /\ bridge' = [bridge EXCEPT !.thread["t1"].pc = "idle",
                                !.thread["t2"].pc = "idle"]
    /\ UNCHANGED EngineVars

InitConstruct ==
    /\ self = NewEngine(TRUE, TRUE, TRUE, "None")
    /\ disp = NewDispatcher("None")
    /\ last = NoCall
    /\ session = "bounded"
    /\ calls_left = MaxCalls
    /\ granted = {}
    /\ rx = <<>>
    /\ arrived = <<>>
    /\ bridge = UnbuiltBridge
    /\ app = NoTask

NextConstruct ==
    \/ ConstructorStarts
    \/ WorkerCreatesLoop
    \/ WorkerSignals
    \/ WorkerRunsForever
    \/ ConstructorReturns
    \/ \E t \in Callers : Call_bridge(t, "connect", <<>>)
    \/ \E t \in Callers, data \in {<<1, 15>>} : Call_bridge(t, "write", data)
    \/ \E t \in Callers : ResultReturns(t)
    \/ LoopRunsReady
    \/ LoopResumesSome

SpecConstruct ==
    /\ InitConstruct
    /\ [][NextConstruct]_vars
    /\ WF_vars(WorkerCreatesLoop)
    /\ WF_vars(WorkerSignals)
    /\ WF_vars(WorkerRunsForever)
    /\ WF_vars(LoopRunsReady)
    /\ WF_vars(LoopResumesSome)
    /\ \A t \in Callers : WF_vars(ResultReturns(t))

----------------------------------------------------------------------------
(* The vocabulary of the properties *)

DataOps ==
    {"digital_write", "pwm_write", "servo_write", "i2c_read", "i2c_write",
     "spi_cs_control", "spi_read_blocking", "spi_write_blocking",
     "spi_set_format", "neo_pixel_set_value", "neopixel_fill", "neopixel_clear",
     "neopixel_show"}

\* the mode-assigning operations that take pin numbers
ModeOps ==
    {"set_pin_mode_digital_input", "set_pin_mode_digital_input_pullup",
     "set_pin_mode_digital_input_pull_down", "set_pin_mode_digital_output",
     "set_pin_mode_pwm_output", "set_pin_mode_servo", "set_pin_mode_dht",
     "set_pin_mode_sonar", "set_pin_mode_neopixel"}

\* the command identifier the frame of a data operation carries
CommandOf(op) ==
    CASE op = "digital_write" -> DIGITAL_WRITE
      [] op \in {"pwm_write", "servo_write"} -> ANALOG_WRITE
      [] op = "i2c_read" -> I2C_READ
      [] op = "i2c_write" -> I2C_WRITE
      [] op = "spi_cs_control" -> SPI_CS_CONTROL
      [] op = "spi_read_blocking" -> SPI_READ_BLOCKING
      [] op = "spi_write_blocking" -> SPI_WRITE_BLOCKING
      [] op = "spi_set_format" -> SPI_SET_FORMAT
      [] op = "neo_pixel_set_value" -> SET_NEOPIXEL
      [] op = "neopixel_fill" -> FILL_NEOPIXELS
      [] op = "neopixel_clear" -> CLEAR_NEOPIXELS
      [] op = "neopixel_show" -> SHOW_NEOPIXELS

\* the mode-assigning operation a data call depends on has succeeded
ModeAssigned(op, args) ==
    CASE op = "digital_write" -> <<"out", args[1]>> \in granted
      [] op = "pwm_write" ->
             <<"pwm", args[1]>> \in granted \/ <<"servo", args[1]>> \in granted
      [] op = "servo_write" -> <<"servo", args[1]>> \in granted
      [] op \in {"i2c_read", "i2c_write"} -> <<"i2c", args[1]>> \in granted
      [] op = "spi_cs_control" -> <<"cs", args[1]>> \in granted
      [] op \in {"spi_read_blocking", "spi_write_blocking", "spi_set_format"} ->
             <<"spi", args[1]>> \in granted
      [] OTHER -> \E g \in granted : g[1] = "neo"

\* the engine s still holds the mode that assignment stored
ModeHeld(s, op, args) ==
    CASE op = "digital_write" -> s.pico_pins[args[1]] = AT_OUTPUT
      [] op = "pwm_write" -> s.pico_pins[args[1]] \in {AT_PWM_OUTPUT, AT_SERVO}
      [] op = "servo_write" -> s.pico_pins[args[1]] = AT_SERVO
      [] op \in {"i2c_read", "i2c_write"} ->
             IF args[1] = 0 THEN s.i2c_0_active ELSE s.i2c_1_active
      [] op = "spi_cs_control" -> s.pico_pins[args[1]] = AT_SPI
      [] op \in {"spi_read_blocking", "spi_write_blocking", "spi_set_format"} ->
             IF args[1] = 0 THEN s.spi_0_active ELSE s.spi_1_active
      [] OTHER -> s.neopixels_initiated

\* the pin a data call names is one the Pico has
KeyLegal(op, args) ==
    op \in {"digital_write", "pwm_write", "servo_write", "spi_cs_control"}
        => args[1] \in LegalPins

\* the call passes a callback where one is required
CallbackGiven(op, args) ==
    CASE op \in {"i2c_read", "set_pin_mode_sonar"} -> args[3] # NoCallback
      [] op \in {"spi_read_blocking", "set_pin_mode_dht"} -> args[2] # NoCallback
      [] OTHER -> TRUE

\* the numeric arguments of a data call are in the range engine s accepts
ArgsInRange(s, op, args) ==
    CASE op = "pwm_write" -> 0 <= args[2] /\ args[2] <= s.maximum_pwm_duty_cycle
      [] op = "servo_write" -> 0 <= args[2] /\ args[2] <= 180
      [] op = "neo_pixel_set_value" ->
             /\ 0 <= args[1] /\ args[1] < s.number_of_pixels
             /\ 0 <= args[2] /\ args[2] <= 255
      [] op = "neopixel_fill" -> 0 <= args[1] /\ args[1] <= 255
      [] OTHER -> TRUE

\* the frames a NeoPixel call adds when it is asked to show at once
ShowFrames(op, args) ==
    CASE op = "neo_pixel_set_value" -> B2I(args[3])
      [] op = "neopixel_fill" -> B2I(args[2])
      [] op = "neopixel_clear" -> B2I(args[1])
      [] OTHER -> 0

\* the pins a mode-assigning call names
PinsOf(op, args) ==
    IF op = "set_pin_mode_sonar" THEN {args[1], args[2]} ELSE {args[1]}

\* the pins some mode-assigning operation has succeeded for
BoundPins ==
    {g[2] : g \in {h \in granted :
                      h[1] \in {"in", "out", "pwm", "servo", "dht", "sonar", "neo"}}}

\* this step is a public call of a bounded session
CallStep == calls_left' = calls_left - 1

----------------------------------------------------------------------------
(* C1 *)

\* C1: a data operation called on a started engine before its mode-assigning
\* operation has succeeded (on a pin the Pico has, with its callback given)
\* fails with the mode-mismatch error and no frame carrying its command is
\* handed to the transport
C1_ModeBeforeData ==
    [][(/\ CallStep
        /\ self.serial_port = "open"
        /\ last'.op \in DataOps
        /\ ~ModeAssigned(last'.op, last'.args)
        /\ KeyLegal(last'.op, last'.args)
        /\ CallbackGiven(last'.op, last'.args))
       => /\ last'.exc = "RuntimeError"
          /\ last'.msg = "mode"
          /\ \A i \in 1..Len(last'.tried) :
                 last'.tried[i][2] # CommandOf(last'.op)]_vars

----------------------------------------------------------------------------
(* C2 *)

\* C2: a data operation called with arguments in range, after its mode-assigning
\* operation has succeeded and while that mode is still stored and the port is
\* open, returns normally and writes one frame carrying its command (one more,
\* the show, when a NeoPixel call asks for it), each frame's first byte being
\* the number of bytes after it
C2_DataAfterMode ==
    [][(/\ CallStep
        /\ last'.op \in DataOps
        /\ ModeAssigned(last'.op, last'.args)
        /\ ModeHeld(self, last'.op, last'.args)
        /\ CallbackGiven(last'.op, last'.args)
        /\ ArgsInRange(self, last'.op, last'.args)
        /\ self.serial_port = "open")
       => /\ last'.exc = "none"
          /\ Len(last'.tx) = 1 + ShowFrames(last'.op, last'.args)
          /\ last'.tx[1][2] = CommandOf(last'.op)
          /\ \A i \in 1..Len(last'.tx) :
                 last'.tx[i][1] = Len(last'.tx[i]) - 1]_vars

----------------------------------------------------------------------------
(* C3 *)

\* C3: a mode-assigning operation naming a pin outside 0..22, 25..28, 64 fails
\* with the invalid-pin error and leaves the pin table, the counters and the
\* callback bindings as they were
C3_UnknownPinRejected ==
    [][(/\ CallStep
        /\ last'.op \in ModeOps
        /\ CallbackGiven(last'.op, last'.args)
        /\ PinsOf(last'.op, last'.args) \ LegalPins # {})
       => /\ last'.exc = "RuntimeError"
          /\ last'.msg = "pin"
          /\ self'.pico_pins = self.pico_pins
          /\ self'.pwm_active_count = self.pwm_active_count
          /\ self'.sonar_count = self.sonar_count
          /\ self'.dht_count = self.dht_count
          /\ self'.digital_callbacks = self.digital_callbacks
          /\ self'.analog_callbacks = self.analog_callbacks
          /\ self'.sonar_callbacks = self.sonar_callbacks
          /\ self'.dht_callbacks = self.dht_callbacks]_vars

----------------------------------------------------------------------------
(* C4 *)

\* C4: from a new engine, set_pin_mode_pwm_output on a pin not used before
\* succeeds while fewer than 16 such calls have succeeded, and after 16 it fails
\* with the capacity error, changing neither pwm_active_count nor the pin's mode
C4_PwmCeilingExact ==
    [][(/\ last'.op = "set_pin_mode_pwm_output"
        /\ self.serial_port = "open")
       => IF Cardinality({g \in granted : g[1] = "pwm"}) < 16
          THEN /\ last'.exc = "none"
               /\ self'.pwm_active_count = self.pwm_active_count + 1
          ELSE /\ last'.exc = "RuntimeError"
               /\ last'.msg = "capacity"
               /\ self'.pwm_active_count = self.pwm_active_count
               /\ self'.pico_pins[last'.args[1]] =
                      self.pico_pins[last'.args[1]]]_vars

----------------------------------------------------------------------------
(* C5 *)

\* C5: every counter stays within its ceiling in every reachable state, and no
\* step makes a counter smaller
C5_CountersBounded ==
    /\ [](/\ self.pwm_active_count <= 16
          /\ self.sonar_count <= MAX_SONARS
          /\ self.dht_count <= MAX_DHTS)
    /\ [][/\ self'.pwm_active_count >= self.pwm_active_count
          /\ self'.sonar_count >= self.sonar_count
          /\ self'.dht_count >= self.dht_count]_vars

\* C5 witness: every counter has stopped growing and a call has just been
\* turned away for lack of room
C5_AllFull ==
    /\ self.sonar_count = MAX_SONARS
    /\ self.dht_count = MAX_DHTS
    /\ self.pwm_active_count = 15
    /\ last.op = "set_pin_mode_dht"
    /\ last.msg = "capacity"

----------------------------------------------------------------------------
(* C6 *)

\* C6: shutdown called when a shutdown has already completed (flag set, port
\* closed) leaves the engine as it was and hands nothing to the transport,
\* neither a write nor a close
C6_ShutdownIdempotent ==
    [][(/\ CallStep
        /\ last'.op = "shutdown"
        /\ self.shutdown_flag
        /\ self.serial_port = "closed")
       => /\ self' = self
          /\ last'.exc = "none"
          /\ last'.tried = <<>>
          /\ last'.closes = 0]_vars

----------------------------------------------------------------------------
(* C7 *)

\* the report and data of the k-th frame the firmware sent
Sent(k) == <<arrived[k][2], SubSeq(arrived[k], 3, Len(arrived[k]))>>

\* C7: handlers are invoked for the frames in the order the frames arrived, at
\* most one handler is unfinished at any time, handlers finish in the order
\* they started, and a handler starts only when every earlier one has finished
C7_InOrderOneAtATime ==
    /\ [](/\ Cardinality(disp.running) <= 1
          /\ Len(disp.started) <= Len(arrived)
          /\ \A k \in 1..Len(disp.started) : disp.started[k] = Sent(k)
          /\ \A k \in 1..Len(disp.finished) : disp.finished[k] = k
          /\ Len(disp.started) = Len(disp.finished) + Cardinality(disp.running))
    /\ [][Len(disp'.started) > Len(disp.started)
              => /\ disp.running = {}
                 /\ Len(disp.finished) = Len(disp.started)
                 /\ Len(disp'.started) = Len(disp.started) + 1]_vars

\* C7 witness: three reports for three different handlers have each been
\* handed to a bound callback, and the third is still running
C7_ThreeDelivered ==
    /\ Len(disp.started) = 3
    /\ {disp.started[k][1] : k \in 1..3} =
           {DIGITAL_REPORT, ANALOG_REPORT, SONAR_DISTANCE}
    /\ disp.finished = <<1, 2>>
    /\ disp.running = {3}
    /\ disp.pc = "callback"

----------------------------------------------------------------------------
(* C8 *)

\* C8: every frame handed to the transport is the length of the command the
\* operation built followed by that command, and digital_write(2, 1) made right
\* after pin 2 was set to digital output on an open port writes 3,
\* DIGITAL_WRITE, 2, 1 and nothing else
C8_Framing ==
    /\ [](/\ Len(last.tried) = Len(last.cmds)
          /\ \A i \in 1..Len(last.tried) :
                 /\ last.tried[i][1] = 1 + (Len(last.cmds[i]) - 1)
                 /\ Len(last.tried[i]) = 1 + Len(last.cmds[i])
                 /\ Tail(last.tried[i]) = last.cmds[i]
          /\ \A i \in 1..Len(last.tx) : last.tx[i] = last.tried[i])
    /\ [][(/\ last.op = "set_pin_mode_digital_output"
           /\ last.args = <<2>>
           /\ last.exc = "none"
           /\ self.serial_port = "open"
           /\ last'.op = "digital_write"
           /\ last'.args = <<2, 1>>)
          => /\ last'.exc = "none"
             /\ last'.tx = <<<<3, DIGITAL_WRITE, 2, 1>>>>]_vars

\* C8 witness: digital_write(2, 1) on the reserved pin has written its frame
C8_DigitalWriteFramed ==
    /\ last.op = "digital_write"
    /\ last.args = <<2, 1>>
    /\ <<"out", 2>> \in granted
    /\ last.tx = <<<<3, DIGITAL_WRITE, 2, 1>>>>

----------------------------------------------------------------------------
(* C9 *)

\* C9: a command of an id and a payload of at most 254 bytes is sent without
\* error, and once the dispatcher has read its frame back the report id and the
\* data it holds are that id and that payload; with 255 payload bytes or more
\* the send raises and nothing is handed to the transport
C9_RoundTrip ==
    last.op = "_send_command" =>
        /\ Len(last.args[2]) <= 254 =>
               /\ last.exc = "none"
               /\ arrived = last.tx
               /\ disp.decoded >= 1 =>
                      /\ disp.report = last.args[1]
                      /\ disp.data = last.args[2]
        /\ Len(last.args[2]) >= 255 =>
               /\ last.exc # "none"
               /\ last.tried = <<>>
               /\ last.tx = <<>>
               /\ rx = <<>>
               /\ disp.decoded = 0

\* C9 witness: the longest payload that fits has gone round
C9_LongestDecoded ==
    /\ last.op = "_send_command"
    /\ Len(last.args[2]) = 254
    /\ disp.decoded = 1
    /\ disp.data = last.args[2]

----------------------------------------------------------------------------
(* C10 *)

\* C10: a mode-assigning operation naming a pin that a mode-assigning operation
\* has already succeeded for fails with the already-bound error and leaves the
\* stored mode of that pin as it was
C10_ModeSetOnce ==
    [][(/\ CallStep
        /\ last'.op \in ModeOps
        /\ CallbackGiven(last'.op, last'.args)
        /\ PinsOf(last'.op, last'.args) \cap BoundPins # {})
       => /\ last'.exc = "RuntimeError"
          /\ last'.msg = "in_use"
          /\ \A pin \in PinsOf(last'.op, last'.args) \cap BoundPins :
                 self'.pico_pins[pin] = self.pico_pins[pin]]_vars

----------------------------------------------------------------------------
(* C11 *)

\* the report names a key that engine s has no handler bound for
MissingBinding(s, report, data) ==
    CASE report = DIGITAL_REPORT ->
             Len(data) >= 2 /\ ~Has(s.digital_callbacks, data[1])
      [] report = ANALOG_REPORT ->
             Len(data) >= 3 /\ ~Has(s.analog_callbacks, data[1])
      [] report = SONAR_DISTANCE ->
             Len(data) >= 3 /\ ~Has(s.sonar_callbacks, data[1])
      [] report = DHT_REPORT ->
             Len(data) >= 8 /\ ~Has(s.dht_callbacks, data[2])
      [] report = I2C_READ_REPORT ->
             /\ Len(data) >= 2
             /\ NoCallback = IF data[1] # 0 THEN s.i2c_callback2
                             ELSE s.i2c_callback
      [] report = SPI_REPORT ->
             /\ Len(data) >= 2
             /\ NoCallback = IF data[1] # 0 THEN s.spi_callback2
                             ELSE s.spi_callback
      [] OTHER -> FALSE

\* C11: a report naming a pin or a port that no handler is bound for does not
\* crash the dispatcher: after decoding it the dispatcher task is still alive
C11_UnboundReportDropped ==
    (disp.report # None /\ MissingBinding(self, disp.report, disp.data))
        => disp.pc # "crashed"

----------------------------------------------------------------------------
(* C12 *)

\* C12: once the dispatcher of an engine that shuts down on exceptions has
\* decoded a frame whose report id is no key of report_dispatch, the
\* dispatcher has stopped and the shutdown routine has run: shutdown_flag is
\* set and the transport is closed
C12_UnknownIdShutsDown ==
    (/\ self.shutdown_on_exception
     /\ disp.report # None
     /\ disp.report \notin ReportIds)
        => /\ disp.pc \in {"crashed", "stopped"}
           /\ self.shutdown_flag
           /\ self.serial_port = "closed"

----------------------------------------------------------------------------
(* C13 *)

\* C13: when, in an engine that shuts down on exceptions, a read of the
\* dispatcher, of the length byte or of the frame body, meets a failed
\* transport, the dispatcher stops in that step without starting a handler or
\* taking a byte, and shutdown has been driven: the flag is set and the
\* transport is closed
C13_ReadFaultShutsDown ==
    [][(/\ self.shutdown_on_exception
        /\ disp.pc \in {"read_length", "read_packet"}
        /\ self.serial_port = "broken"
        /\ disp' # disp)
       => /\ disp'.pc = "stopped"
          /\ disp'.started = disp.started
          /\ rx' = rx
          /\ self'.shutdown_flag
          /\ self'.serial_port = "closed"]_vars

----------------------------------------------------------------------------
(* C14 *)

\* the call passes a numeric argument outside the range the operation accepts
\* in engine s
OutOfRange(s, op, args) ==
    CASE op = "set_pin_mode_analog_input" -> ~(0 <= args[1] /\ args[1] < 5)
      [] op = "pwm_range" -> ~(16 <= args[1] /\ args[1] <= 65535)
      [] op \in {"pwm_write", "neo_pixel_set_value", "neopixel_fill"} ->
             ~ArgsInRange(s, op, args)
      [] OTHER -> FALSE

\* C14: a public call given a numeric argument outside its range fails with an
\* error, and not one byte is written to the transport by that call
C14_OutOfRangeWritesNothing ==
    [][(CallStep /\ OutOfRange(self, last'.op, last'.args))
       => /\ last'.exc # "none"
          /\ last'.tx = <<>>]_vars

----------------------------------------------------------------------------
(* C15 *)

\* the call is one that validation in engine s turns away: it names a pin the
\* Pico does not have, an operation whose mode was never assigned, an argument
\* out of range, or no callback where one is required
Invalid(s, op, args) ==
    \/ op \in ModeOps /\ ~(PinsOf(op, args) \subseteq LegalPins)
    \/ op \in DataOps /\ KeyLegal(op, args) /\ ~ModeHeld(s, op, args)
    \/ OutOfRange(s, op, args)
    \/ ~CallbackGiven(op, args)

\* C15: in a started engine that shuts down on exceptions, when a public call
\* that validation turns away raises its error, the shutdown routine has run
\* to completion: shutdown_flag is set and the transport has been closed
C15_ShutdownBeforeRaise ==
    [][(/\ CallStep
        /\ self.shutdown_on_exception
        /\ self.serial_port = "open"
        /\ Invalid(self, last'.op, last'.args)
        /\ last'.exc # "none")
       => /\ self'.shutdown_flag
          /\ self'.serial_port = "closed"
          /\ last'.closes = 1]_vars

----------------------------------------------------------------------------
(* C16 *)

\* C16: when the shutdown routine returns in an engine whose transport is
\* attached and not yet closed, the transport has been closed, also when a
\* write of the routine failed
C16_ShutdownCloses ==
    [][(/\ CallStep
        /\ last'.op = "shutdown"
        /\ self.serial_port \in {"open", "broken"})
       => /\ self'.serial_port = "closed"
          /\ last'.closes = 1]_vars

----------------------------------------------------------------------------
(* C17 *)

\* the bus a bus-activating call names
BusOf(op, args) == <<IF op = "set_pin_mode_i2c" THEN "i2c" ELSE "spi", args[1]>>

\* C17: set_pin_mode_i2c or set_pin_mode_spi for a port that an earlier call
\* has activated fails, whatever pins it names, and leaves the pin table and
\* the bus tables as they were
C17_BusActivatedOnce ==
    [][(/\ CallStep
        /\ last'.op \in {"set_pin_mode_i2c", "set_pin_mode_spi"}
        /\ BusOf(last'.op, last'.args) \in granted)
       => /\ last'.exc = "RuntimeError"
          /\ self'.pico_pins = self.pico_pins
          /\ self'.i2c_sda_pins = self.i2c_sda_pins
          /\ self'.i2c_scl_pins = self.i2c_scl_pins]_vars

----------------------------------------------------------------------------
(* C18 *)

\* the pins a bus activation claims
BusPins(op, args) ==
    IF op = "set_pin_mode_i2c" THEN {args[2], args[3]}
    ELSE LET given == args[2] # None /\ args[2] # 0
         IN  IF args[1] = 0 THEN {16, 19, 18, IF given THEN args[2] ELSE 17}
             ELSE {12, 15, 14, IF given THEN args[2] ELSE 13}

\* C18: a bus activation that succeeds claimed only pins the Pico has, each
\* with no mode set when the call was made
C18_BusPinsFree ==
    [][(/\ CallStep
        /\ last'.op \in {"set_pin_mode_i2c", "set_pin_mode_spi"}
        /\ last'.exc = "none")
       => \A pin \in BusPins(last'.op, last'.args) :
              /\ pin \in LegalPins
              /\ self.pico_pins[pin] = AT_MODE_NOT_SET]_vars

----------------------------------------------------------------------------
(* C19 *)

\* the pins a PWM output or servo mode was assigned to and that still hold it
SlotsInUse ==
    {g[2] : g \in {h \in granted :
                      /\ h[1] \in {"pwm", "servo"}
                      /\ self.pico_pins[h[2]] \in {AT_PWM_OUTPUT, AT_SERVO}}}

\* C19: PWM outputs and servos together never hold more than 16 pins
C19_SharedSlots == Cardinality(SlotsInUse) <= 16

----------------------------------------------------------------------------
(* C20 *)

\* thread t comes back from future.result() in this step
Resumes(t) ==
    bridge.thread[t].pc = "waiting" /\ bridge'.thread[t].pc # "waiting"

\* thread t returns from its bridge call to its caller in this step
CallEnds(t) ==
    bridge.thread[t].pc \in {"waiting", "stopping"} /\ bridge'.thread[t].pc = "idle"

\* the worker is able to serve a call made in bridge state b: its loop runs
\* and has not been told to stop
Serving(b) == b.loop = "running" /\ \A i \in 1..Len(b.ready) : b.ready[i] # 0

\* a disconnect has come back to its caller with a result
Disconnected ==
    \E id \in 1..Len(bridge.work) :
        /\ bridge.work[id].op = "disconnect"
        /\ bridge.future[id].state = "result"
        /\ bridge.thread[bridge.work[id].caller].waits >= id
        /\ bridge.thread[bridge.work[id].caller].waits = id
               => bridge.thread[bridge.work[id].caller].got # <<>>

\* a caller thread resumes only from a coroutine that has finished, that ran
\* on the worker thread alone, and with that coroutine's result or exception
ReturnsTheWork ==
    \A t \in Callers :
        Resumes(t) =>
            LET id == bridge.thread[t].waits
            IN  /\ bridge.work[id].pc = "done"
                /\ bridge.work[id].by = {"worker"}
                /\ bridge.future[id].state \in {"result", "exception"}
                /\ bridge'.thread[t].got =
                       <<id, bridge.future[id].state, bridge.future[id].value>>

\* C20 as amended: every coroutine of a bridge call runs on the worker thread
\* only, its future is set exactly when it has finished, the caller resumes
\* only then and with its result or exception, and the worker stays able to
\* serve later calls as long as no disconnect has returned a result
C20_BridgeCall ==
    /\ [](/\ \A id \in 1..Len(bridge.work) :
                 /\ bridge.work[id].by \subseteq {"worker"}
                 /\ bridge.work[id].pc = "done"
                        <=> bridge.future[id].state # "pending"
          /\ ~Serving(bridge) => Disconnected)
    /\ [][ReturnsTheWork]_vars

\* C20 witness: a write has raised in its caller, and a call made after it
\* has been served and has returned its result
C20_ServedAfterFailure ==
    \E t \in Callers, id \in 1..Len(bridge.work) :
        /\ bridge.thread[t].got # <<>>
        /\ bridge.thread[t].got[1] > id
        /\ bridge.thread[t].got[2] = "result"
        /\ bridge.work[id].op = "write"
        /\ bridge.future[id].state = "exception"
        /\ bridge.thread[bridge.work[id].caller].waits > id

\* C20 as stated: the caller resumes with the finished work's result or
\* exception, and when any bridge call returns, disconnect included, the
\* worker is able to serve later calls
C20_WorkerServesAfterEveryCall ==
    [][/\ ReturnsTheWork
       /\ \A t \in Callers : CallEnds(t) => Serving(bridge')]_vars

----------------------------------------------------------------------------
(* C21 *)

\* thread t is blocked inside a bridge call
InCall(t) == bridge.thread[t].pc = "waiting"

\* C21: a bridge call made from any context eventually returns: a thread
\* that is blocked inside a bridge call, be it a caller's thread or the
\* worker's loop running the notification handler, leaves the call
C21_CallReturns == \A t \in Threads : InCall(t) ~> ~InCall(t)

----------------------------------------------------------------------------
(* C22 *)

\* the latest public call was read operation op on the given port and it
\* returned normally
ReadIssued(op, port) ==
    last.op = op /\ last.exc = "none" /\ last.args[1] = port

\* in this step the dispatcher decodes a report of the given kind for the
\* given port and runs its handler
Decodes(report, port) ==
    /\ disp'.decoded = disp.decoded + 1
    /\ disp'.report = report
    /\ disp'.data # <<>>
    /\ disp'.data[1] = port

\* C22: after i2c_read(port = p, callback = cb), with p 0 or 1, and no public
\* call since, an I2C read report for port p invokes cb; after
\* spi_read_blocking(spi_port = p, call_back = cb) an SPI report for port p
\* invokes cb
C22_ReadRouted ==
    [][\A p \in {0, 1} :
           /\ ReadIssued("i2c_read", p) /\ Decodes(I2C_READ_REPORT, p)
                  => report_dispatch(self, I2C_READ_REPORT, disp'.data)
                         = Awaiting(self, last.args[3])
           /\ ReadIssued("spi_read_blocking", p) /\ Decodes(SPI_REPORT, p)
                  => report_dispatch(self, SPI_REPORT, disp'.data)
                         = Awaiting(self, last.args[2])]_vars

----------------------------------------------------------------------------
(* C23 *)

\* the dispatcher task has left its loop
Stopped == disp.pc = "stopped"

\* with the flag set, the dispatcher at its loop top starts no read
NoNewDecode ==
    self.shutdown_flag /\ disp.pc = "sleep" => disp'.pc \in {"sleep", "stopped"}

\* since shutdown() set the flag the dispatcher has decoded at most one report
AtMostOneMore == app.op = "shutdown" => disp.decoded <= app.decoded + 1

\* C23 as amended: once the shutdown flag is set the dispatcher delivers at
\* most the one report whose read was under way, starts no further read from
\* its loop top, and eventually leaves its loop, unless shutdown() has stopped
\* the event loop, which then resumes the dispatcher no more
C23_Drains ==
    /\ []AtMostOneMore
    /\ [][NoNewDecode]_vars
    /\ self.shutdown_flag ~> (Stopped \/ ~LoopRuns)

\* C23 witness: after the flag was set the dispatcher has delivered one more
\* report and has then left its loop
C23_DrainedOne ==
    /\ self.shutdown_flag
    /\ app.op = "shutdown"
    /\ disp.decoded = app.decoded + 1
    /\ Len(disp.finished) = disp.decoded
    /\ Stopped

\* C23 as stated: once the shutdown flag is set the dispatcher delivers at
\* most the one report in flight, starts no further decode, and eventually
\* reaches Stopped: its loop exits
C23_DrainsAndStops ==
    /\ []AtMostOneMore
    /\ [][NoNewDecode]_vars
    /\ self.shutdown_flag ~> Stopped

----------------------------------------------------------------------------
(* C24 *)

\* the reports of an I2C byte-count fault
ByteCountFaults == {I2C_TOO_FEW_BYTES_RECEIVED, I2C_TOO_MANY_BYTES_RECEIVED}

\* the i-th report the dispatcher took up was a byte-count fault, and the
\* engine has been shut down and nothing taken up after it
FaultShutsDown(i) ==
    disp.started[i][1] \in ByteCountFaults
        => /\ self.shutdown_flag
           /\ self.serial_port = "closed"
           /\ i = Len(disp.started)
           /\ disp.running = {}
           /\ disp.pc \in {"sleep", "stopped"}

\* C24 as amended: on an engine constructed with shutdown_on_exception, once
\* the dispatcher has handled an I2C byte-count fault report the shutdown
\* flag is set, the transport is closed, and the dispatcher delivers no
\* further report
C24_FaultShutsDown ==
    self.shutdown_on_exception
        => \A i \in 1..Len(disp.started) : FaultShutsDown(i)

\* C24 witness: a byte-count fault was handled, the reports that arrived after
\* it were left unread, and the dispatcher has left its loop
C24_FaultThenStopped ==
    /\ self.shutdown_on_exception
    /\ disp.started # <<>>
    /\ disp.started[Len(disp.started)][1] \in ByteCountFaults
    /\ Len(arrived) > Len(disp.started)
    /\ disp.pc = "stopped"

\* C24 as stated: once the dispatcher has handled an I2C byte-count fault
\* report the shutdown flag is set, the transport is closed, and the
\* dispatcher delivers no further report
C24_EveryFaultShutsDown ==
    \A i \in 1..Len(disp.started) : FaultShutsDown(i)

----------------------------------------------------------------------------
(* C25 *)

\* start_aio has ended on a failed identity check: sys.exit for an id other
\* than the expected one, RuntimeError for no firmware version
IdentityFailed ==
    /\ app.op = "start_aio"
    /\ app.pc = "done"
    /\ app.exc \in {"SystemExit", "RuntimeError"}

\* C25: when startup fails on the identity check (the reported unique id is
\* not the expected one, or no firmware version was reported), shutdown has
\* run and closed the transport before the engine exits or raises
C25_IdentityFailureShutsDown ==
    IdentityFailed /\ self.shutdown_on_exception
        => self.shutdown_flag /\ self.serial_port = "closed"

----------------------------------------------------------------------------
(* C26 *)

\* the first place of kind `kind` in a call's log, 0 if there is none
FirstOf(log, kind) ==
    IF \E i \in 1..Len(log) : log[i][1] = kind
    THEN CHOOSE i \in 1..Len(log) :
             /\ log[i][1] = kind
             /\ \A j \in 1..(i - 1) : log[j][1] # kind
    ELSE 0

\* what a call did from the moment it set the shutdown flag
FromFlag(log) == SubSeq(log, FirstOf(log, "flag"), Len(log))

\* the steps of shutdown on engine s, in their order
ShutdownSteps(s) ==
    <<<<"flag", <<>>>>, <<"write", <<1, STOP_ALL_REPORTS>>>>>>
        \o (IF s.reset_on_shutdown THEN <<<<"write", <<1, RESET_BOARD>>>>>>
            ELSE <<>>)
        \o <<<<"close", <<>>>>>>
        \o (IF s.close_loop_on_shutdown THEN <<<<"loop_stop", <<>>>>>> ELSE <<>>)

IsPrefix(a, b) == Len(a) <= Len(b) /\ a = SubSeq(b, 1, Len(a))

\* a public call that runs shutdown on an engine with a port attached does
\* the steps of shutdown in their order, as far as it gets, and all of them
\* when the port is open
StepsInOrder ==
    /\ CallStep
    /\ self.serial_port # "None"
    /\ FirstOf(last'.log, "flag") > 0
    => /\ IsPrefix(FromFlag(last'.log), ShutdownSteps(self))
       /\ self.serial_port = "open" => FromFlag(last'.log) = ShutdownSteps(self)

\* a call on an engine whose port has been closed writes no frame
NoWriteAfterClose ==
    CallStep /\ self.serial_port = "closed" => last'.tx = <<>>

\* C26: shutdown sets the flag, writes the stop-all-reports command, then the
\* reset command if reset_on_shutdown, then closes the transport, then stops
\* the loop if close_loop_on_shutdown, in this order; and no command frame
\* is written after the close
C26_ShutdownOrder == [][StepsInOrder /\ NoWriteAfterClose]_vars

\* C26 witness: a call has run all five steps of shutdown, and a later call
\* (this one) found the port closed
C26_AllStepsThenClosed ==
    /\ self.serial_port = "closed"
    /\ self.loop_stopped
    /\ self.reset_on_shutdown
    /\ last.op = "digital_write"
    /\ last.tried # <<>>
    /\ last.tx = <<>>

----------------------------------------------------------------------------
(* C27 *)

\* the command of this call did not reach the wire: no port is attached, or
\* the transport's write raised
TransmitFailed == last'.exc # "none" /\ last'.msg \in {"usb", "write"}

\* what set_pin_mode_dht and set_pin_mode_neopixel store before they send is
\* still there after the call
MutationKept ==
    /\ last'.op = "set_pin_mode_dht"
           => /\ self'.dht_count = self.dht_count + 1
              /\ self'.pico_pins[last'.args[1]] = AT_DHT
              /\ self'.dht_callbacks[last'.args[1]] = last'.args[2]
    /\ last'.op = "set_pin_mode_neopixel"
           => self'.number_of_pixels = last'.args[2]

\* C27: when the command of a mode-assigning operation cannot be transmitted,
\* the pin mode, counter and callback the operation has already stored are
\* not rolled back, and the engine (constructed with shutdown_on_exception)
\* has run shutdown when the error reaches the caller
C27_FailedTransmitShutsDown ==
    [][CallStep /\ last'.op \in ModeOps /\ TransmitFailed
           => /\ MutationKept
              /\ self.shutdown_on_exception => self'.shutdown_flag]_vars

----------------------------------------------------------------------------
(* C28 *)

\* the place of a frame among the frames the bridge has written, 0 if none
Place(frame) ==
    IF \E k \in 1..Len(bridge.sent) : bridge.sent[k] = frame
    THEN CHOOSE k \in 1..Len(bridge.sent) : bridge.sent[k] = frame
    ELSE 0

\* calls i and j are writes made by the same thread, i before j
WritesInTurn(i, j) ==
    /\ i < j
    /\ bridge.work[i].op = "write"
    /\ bridge.work[j].op = "write"
    /\ bridge.work[i].caller = bridge.work[j].caller

\* what has been written is whole frames, each the frame of one write call
\* and written once
WholeFrames ==
    \A k \in 1..Len(bridge.sent) :
        /\ \E id \in 1..Len(bridge.work) :
               bridge.work[id].op = "write" /\ bridge.work[id].data = bridge.sent[k]
        /\ \A n \in 1..Len(bridge.sent) : bridge.sent[n] = bridge.sent[k] => n = k

----------------------------------------------------------------------------
(* C29 *)

\* this call is a pwm_write that passed the range test: on an open port it
\* wrote its frame and returned; duty d is in 0..max exactly then
AcceptsExactly(max) ==
    LET d == last'.args[2]
    IN  /\ last'.msg # "range" <=> 0 <= d /\ d <= max
        /\ 0 <= d /\ d <= max /\ self.serial_port = "open"
               => /\ last'.exc = "none"
                  /\ last'.tx = <<<<4, ANALOG_WRITE, 2, d \div 256, d % 256>>>>

\* the steps of a session keep the duty range as the claim says
RangeStep ==
    /\ CallStep /\ last'.op = "pwm_write"
           => /\ AcceptsExactly(self.maximum_pwm_duty_cycle)
              /\ self'.maximum_pwm_duty_cycle = self.maximum_pwm_duty_cycle
    /\ CallStep /\ last'.op = "pwm_range"
           => IF 16 <= last'.args[1] /\ last'.args[1] <= 65535
              THEN /\ self.serial_port = "open" => last'.exc = "none"
                   /\ last'.exc = "none"
                          => self'.maximum_pwm_duty_cycle = last'.args[1]
              ELSE /\ last'.exc = "RuntimeError"
                   /\ self'.maximum_pwm_duty_cycle = self.maximum_pwm_duty_cycle

\* C29: pwm_write accepts exactly the duty cycles 0..maximum, where the
\* maximum is MAX_PWM_DUTY_CYCLE until a pwm_range(r) with 16 <= r <= 65535
\* succeeds and is r from then on; pwm_range with r outside 16..65535 fails
\* and leaves the maximum as it was
C29_DutyRange ==
    /\ last.op = "init" => self.maximum_pwm_duty_cycle = MAX_PWM_DUTY_CYCLE
    /\ [][RangeStep]_vars

\* C29 witness: after pwm_range(16) a pwm_write of 17 was turned down
C29_NarrowedThenRejected ==
    /\ self.maximum_pwm_duty_cycle = 16
    /\ last.op = "pwm_write"
    /\ last.args[2] = 17
    /\ last.msg = "range"

----------------------------------------------------------------------------
(* C30 *)

\* the duty cycle the servo's pulse range gives for an angle
ServoDuty(range, value) ==
    range[1] + (value * (range[2] - range[1])) \div 180

\* C30: a servo_write(pin, value), value in 0..180, on a pin that
\* set_pin_mode_servo attached writes one ANALOG_WRITE frame for the pin whose
\* two duty bytes hold min_pulse + floor(value * (max_pulse - min_pulse) / 180)
C30_ServoDutyWritten ==
    [][(/\ CallStep
        /\ last'.op = "servo_write"
        /\ 0 <= last'.args[2] /\ last'.args[2] <= 180
        /\ self.serial_port = "open"
        /\ Has(self.pico_pins, last'.args[1])
        /\ self.pico_pins[last'.args[1]] = AT_SERVO
        /\ Has(self.servo_ranges, last'.args[1]))
           => LET pin  == last'.args[1]
                  duty == ServoDuty(self.servo_ranges[pin], last'.args[2])
              IN  /\ last'.exc = "none"
                  /\ last'.tx = <<<<4, ANALOG_WRITE, pin,
                                    duty \div 256, duty % 256>>>>]_vars

----------------------------------------------------------------------------
(* C31 *)

\* in this step the dispatcher decodes a DHT report for a pin whose callback
\* is bound
DecodesBoundDht ==
    /\ disp'.decoded = disp.decoded + 1
    /\ disp'.report = DHT_REPORT
    /\ Len(disp'.data) >= 2
    /\ Has(self.dht_callbacks, disp'.data[2])
    /\ self.dht_callbacks[disp'.data[2]] # NoCallback

\* C31: a DHT report for a pin with a bound handler, error report or reading,
\* has its handler awaiting the bound callback when the decode step ends, and
\* the dispatcher decodes no further frame while that callback is unfinished
C31_DhtCallbackRuns ==
    /\ [][DecodesBoundDht
              => /\ Len(disp'.started) \in disp'.running
                 /\ disp'.pc = "callback"]_vars
    /\ [][disp.running # {} => disp'.decoded = disp.decoded]_vars

----------------------------------------------------------------------------
(* C32 *)

\* C32: an i2c_read that returns has written one I2C read frame whose register
\* field is the caller's register number for every register 0..254, and the
\* no-register marker only when the caller passed None
C32_RegisterUnchanged ==
    [][(CallStep /\ last'.op = "i2c_read" /\ last'.exc = "none")
           => LET reg == last'.args[2]
              IN  /\ Len(last'.tx) = 1
                  /\ last'.tx[1][2] = I2C_READ
                  /\ last'.tx[1][5] = IF reg = None THEN I2C_NO_REGISTER
                                      ELSE reg]_vars

----------------------------------------------------------------------------
(* C33 *)

\* the number a run of bytes spells most-significant first, and -1 when one
\* of them is no byte
BigEndian(bytes) ==
    IF \E i \in 1..Len(bytes) : bytes[i] \notin 0..255 THEN -1
    ELSE IF Len(bytes) = 2 THEN bytes[1] * 256 + bytes[2]
    ELSE ((bytes[1] * 256 + bytes[2]) * 256 + bytes[3]) * 256 + bytes[4]

\* the frame a call wrote carries the number in the bytes from..to, big-endian,
\* behind its command byte
Carries(frame, command, from, to, number) ==
    /\ frame[1] = Len(frame) - 1
    /\ frame[2] = command
    /\ BigEndian(SubSeq(frame, from, to)) = number

----------------------------------------------------------------------------
(* C34 *)

\* how often a call entered shutdown: each entry sets the flag first
Entries(log) == Cardinality({i \in 1..Len(log) : log[i][1] = "flag"})

\* C34: shutdown ends after a bounded number of steps from every state, with
\* or without a port attached: a call that runs shutdown enters it once and
\* ends without the interpreter having had to cut a descent of shutdown into
\* itself at its frame limit
C34_ShutdownBounded ==
    [][CallStep
           => /\ Entries(last'.log) <= 1
              /\ \A i \in 1..Len(last'.log) : last'.log[i][1] # "limit"]_vars

----------------------------------------------------------------------------
(* C35 *)

\* the keys __init__ gives the pin table
InitialPins == (0..22) \cup (25..28) \cup {64}

\* C35: the keys of the pin table are those of initialisation, 0..22, 25..28
\* and 64, whatever public operations have been called and however they ended
C35_PinKeysFixed == DOMAIN self.pico_pins = InitialPins

----------------------------------------------------------------------------
(* C36 *)

\* a shutdown has completed: the flag is set and the transport closed
ShutDown == self.shutdown_flag /\ self.serial_port = "closed"

\* this step hands a command frame to the transport: a public call does, or
\* the stretch of start_aio that runs in this step
WritesFrame ==
    \/ CallStep /\ last'.tx # <<>>
    \/ /\ app' # app
       /\ \E i \in (Len(app.log) + 1)..Len(app'.log) : app'.log[i][1] = "write"

----------------------------------------------------------------------------
(* C37 *)

\* the pins whose stored mode is PWM output
PwmOutputPins(s) == {p \in DOMAIN s.pico_pins : s.pico_pins[p] = AT_PWM_OUTPUT}

\* C37: pwm_active_count is the number of pins whose stored mode is PWM
\* output, in every reachable state; a set_pin_mode_pwm_output repeated on a
\* pin already in PWM mode counts no second slot
C37_CountIsPwmPins ==
    self.pwm_active_count = Cardinality(PwmOutputPins(self))

----------------------------------------------------------------------------
(* C38 *)

\* thread t is blocked inside a bridge call that it made after a disconnect
\* of its own had returned
InLateCall(t) ==
    /\ bridge.thread[t].pc = "waiting"
    /\ \E id \in 1..(bridge.thread[t].waits - 1) :
           bridge.work[id].op = "disconnect" /\ bridge.work[id].caller = t

\* C38: a bridge call made after disconnect has returned (another disconnect,
\* a write, a connect) eventually returns to its caller, with a result or an
\* error: no caller thread stays blocked in it
C38_LateCallReturns == \A t \in Callers : InLateCall(t) ~> ~InLateCall(t)

----------------------------------------------------------------------------
(* C39 *)

\* the worker has published its loop and set the event, and has not entered
\* run_forever yet
BeforeRunLoop == bridge.loop = "ready"

\* the loop has run coroutine id, at least up to its first await
Executed(id) == id <= Len(bridge.work) /\ "worker" \in bridge.work[id].by

\* C39: __init__ returns only after the worker has made and published its
\* loop: whenever a thread has the bridge, and so whenever a call has been
\* submitted, the loop is set; and a coroutine submitted before the worker
\* has entered run_forever is run by the loop all the same
C39_LoopPublishedFirst ==
    /\ [](\A t \in Callers :
              bridge.thread[t].pc \in {"idle", "waiting"}
                  => bridge.loop \notin {"unset", "set"})
    /\ [](bridge.work # <<>> => bridge.loop \notin {"unset", "set"})
    /\ \A id \in 1..MaxBridgeCalls :
           (BeforeRunLoop /\ id <= Len(bridge.work)) ~> Executed(id)

\* C39 witness: a call was submitted after __init__ returned and before the
\* worker entered run_forever
C39_SubmittedBeforeRunLoop ==
    /\ BeforeRunLoop
    /\ bridge.work # <<>>
    /\ bridge.thread["t1"].pc = "waiting"

====
